---- MODULE Spec2Model ----
(***************************************************************************)
(* DocsVibe file router: model of the client-side routing utilities        *)
(* (src/frontend/utils/fileRouter/index.ts and fileAnalyzer.ts).           *)
(*                                                                         *)
(* The routing functions are pure.  A behaviour of the model is one call:  *)
(* the initial state holds the function to call and its arguments, the     *)
(* action of that function computes the result.                            *)
(* Strings the code searches or slices (model ids, file names, file        *)
(* extensions) are sequences of one-character strings, so that             *)
(* toLowerCase, includes, lastIndexOf and slice are computed as            *)
(* JavaScript computes them.  Strings the code only compares with ===      *)
(* (file types, MIME types, families) are plain strings.                   *)
(***************************************************************************)
EXTENDS Integers, Sequences, FiniteSets, TLC

VARIABLES
    input,      \* the call under consideration: function name and arguments
    op,         \* the function that has returned, "none" before the call
    decision,   \* result of checkModelCompatibility (CompatibilityCheck)
    family,     \* result of getModelFamily
    analysis,   \* result of analyzeFile (FileAnalysis)
    formatted,  \* result of formatSuggestion (Suggestion)
    built,      \* result of SuggestionBuilder.build (Suggestion)
    pdfSupport  \* isPDFModel and maxPDFs, as the chat page derives them

\* the state of the chat page
VARIABLES
    selectedModel,    \* useState selectedModel
    previousModel,    \* useState previousModel
    uploadedPDFs,     \* useState uploadedPDFs
    isUploadingPDF,   \* useState isUploadingPDF
    isAnalyzingFile,  \* useState isAnalyzingFile
    conversationId,   \* useState conversationId, 0 for null
    suggestionModal,  \* useState suggestionModal
    isProcessing,     \* useState isProcessing of the suggestion modal
    tasks,            \* the asynchronous calls in flight, each with the values
                      \* its closure captured
    server,           \* the server: its conversations and stored documents
    selections,       \* history: the number of files selected
    modelChanges      \* history: the number of models picked in the selector

\* the state of useChatHistory and of the backend's conversations
VARIABLES
    sessions,          \* useState sessions: the ids of the sessions in the sidebar
    currentSessionId,  \* useState currentSessionId, 0 for null
    conversations,     \* the ids of the conversations the backend holds
    historyTasks       \* the calls of useChatHistory in flight

\* the state of useAuth and of the Supabase client
VARIABLES
    user,                  \* useState user
    loading,               \* useState loading
    showRestrictionModal,  \* useState showRestrictionModal
    restrictedEmail,       \* useState restrictedEmail
    authSession,           \* the session the Supabase client holds
    authTasks,             \* the calls of useAuth in flight
    authEvents             \* history: the number of changes of the session

pureVars == <<input, op, decision, family, analysis, formatted, built, pdfSupport>>

chatVars ==
    <<selectedModel, previousModel, uploadedPDFs, isUploadingPDF, isAnalyzingFile,
      conversationId, suggestionModal, isProcessing, tasks, server, selections,
      modelChanges>>

historyVars == <<sessions, currentSessionId, conversations, historyTasks>>

authVars ==
    <<user, loading, showRestrictionModal, restrictedEmail, authSession,
      authTasks, authEvents>>

vars == <<pureVars, chatVars,
                   historyVars, authVars>>

(***************************************************************************)
(* Bounds of the model.                                                    *)
(***************************************************************************)
MaxParts == 2    \* model ids are built from at most MaxParts marker words
MaxCount == 11   \* requested file counts range over 0..MaxCount

(***************************************************************************)
(* JavaScript string operations on character sequences.                    *)
(***************************************************************************)
\* String.prototype.toLowerCase, one character
LowerChar(c) ==
    CASE c = "A" -> "a" [] c = "B" -> "b" [] c = "C" -> "c" [] c = "D" -> "d"
      [] c = "E" -> "e" [] c = "F" -> "f" [] c = "G" -> "g" [] c = "H" -> "h"
      [] c = "I" -> "i" [] c = "J" -> "j" [] c = "K" -> "k" [] c = "L" -> "l"
      [] c = "M" -> "m" [] c = "N" -> "n" [] c = "O" -> "o" [] c = "P" -> "p"
      [] c = "Q" -> "q" [] c = "R" -> "r" [] c = "S" -> "s" [] c = "T" -> "t"
      [] c = "U" -> "u" [] c = "V" -> "v" [] c = "W" -> "w" [] c = "X" -> "x"
      [] c = "Y" -> "y" [] c = "Z" -> "z"
      [] OTHER -> c

\* String.prototype.toLowerCase
toLowerCase(s) == [i \in 1..Len(s) |-> LowerChar(s[i])]

\* String.prototype.includes: sub occurs in s as a contiguous substring
includes(s, sub) ==
    \E i \in 0..(Len(s) - Len(sub)) : SubSeq(s, i + 1, i + Len(sub)) = sub

\* Array.prototype.includes on an array held as a sequence
arrayIncludes(arr, x) == \E i \in 1..Len(arr) : arr[i] = x

(***************************************************************************)
(* Family markers searched by getModelFamily.                              *)
(***************************************************************************)
mDeepseek == <<"d", "e", "e", "p", "s", "e", "e", "k">>
mPixtral  == <<"p", "i", "x", "t", "r", "a", "l">>
mLlama    == <<"l", "l", "a", "m", "a">>
mVision   == <<"v", "i", "s", "i", "o", "n">>
mQwen     == <<"q", "w", "e", "n">>
mGemma    == <<"g", "e", "m", "m", "a">>

(***************************************************************************)
(* Model identifiers named in the sources.                                 *)
(***************************************************************************)
idDeepseekExp   == <<"d", "e", "e", "p", "s", "e", "e", "k", "-", "c", "h", "a", "t", "-", "v", "3", ".", "2", "-", "e", "x", "p">>
idDeepseekCoder == <<"d", "e", "e", "p", "s", "e", "e", "k", "-", "c", "h", "a", "t", "-", "v", "3", ".", "2", "-", "c", "o", "d", "e", "r">>
idDeepseekR1    == <<"d", "e", "e", "p", "s", "e", "e", "k", "-", "r", "e", "a", "s", "o", "n", "e", "r", "-", "r", "1">>
idPixtral12b    == <<"p", "i", "x", "t", "r", "a", "l", "-", "1", "2", "b">>
idLlamaVision   == <<"l", "l", "a", "m", "a", "-", "3", ".", "2", "-", "v", "i", "s", "i", "o", "n", "-", "9", "0", "b">>

\* the ids of the model registry, in registry order
AVAILABLE_MODELS == <<
    <<"p", "r", "o", "v", "i", "d", "e", "r", "-", "8", "/", "q", "w", "e", "n", "3", "-", "n", "e", "x", "t", "-", "8", "0", "b", "-", "a", "3", "b", "-", "i", "n", "s", "t", "r", "u", "c", "t">>,
    <<"p", "r", "o", "v", "i", "d", "e", "r", "-", "8", "/", "g", "e", "m", "i", "n", "i", "-", "2", ".", "0", "-", "f", "l", "a", "s", "h">>,
    <<"p", "r", "o", "v", "i", "d", "e", "r", "-", "8", "/", "g", "p", "t", "-", "o", "s", "s", "-", "1", "2", "0", "b">>,
    <<"p", "r", "o", "v", "i", "d", "e", "r", "-", "8", "/", "k", "i", "m", "i", "-", "k", "2">>,
    <<"p", "r", "o", "v", "i", "d", "e", "r", "-", "8", "/", "l", "l", "a", "m", "a", "-", "4", "-", "m", "a", "v", "e", "r", "i", "c", "k">>,
    <<"p", "r", "o", "v", "i", "d", "e", "r", "-", "2", "/", "d", "e", "e", "p", "s", "e", "e", "k", "-", "r", "1">>,
    <<"p", "r", "o", "v", "i", "d", "e", "r", "-", "8", "/", "k", "i", "m", "i", "-", "k", "2", "-", "t", "h", "i", "n", "k", "i", "n", "g">>,
    <<"p", "r", "o", "v", "i", "d", "e", "r", "-", "2", "/", "d", "e", "e", "p", "s", "e", "e", "k", "-", "v", "3", ".", "1">>,
    <<"p", "r", "o", "v", "i", "d", "e", "r", "-", "3", "/", "g", "e", "m", "m", "a", "-", "3", "-", "2", "7", "b", "-", "i", "t">>,
    <<"p", "r", "o", "v", "i", "d", "e", "r", "-", "6", "/", "c", "o", "m", "p", "o", "u", "n", "d", "-", "m", "i", "n", "i">>,
    <<"p", "r", "o", "v", "i", "d", "e", "r", "-", "6", "/", "c", "o", "m", "p", "o", "u", "n", "d">> >>

(***************************************************************************)
(* Inputs: model ids.  Besides the ids named in the sources, every         *)
(* concatenation of at most MaxParts words, the words being the markers    *)
(* in several letter cases and a word that holds no marker.                *)
(***************************************************************************)
Words ==
    { mDeepseek, <<"D", "e", "e", "p", "S", "e", "e", "k">>,
      mPixtral, mLlama, <<"V", "i", "s", "i", "o", "n">>,
      mQwen, mGemma, <<"g", "p", "t">> }

RECURSIVE WordSeqs(_)
WordSeqs(n) ==
    IF n = 0 THEN { <<>> }
    ELSE { w \o r : w \in Words, r \in WordSeqs(n - 1) }

ModelIds ==
    UNION { WordSeqs(n) : n \in 0..MaxParts }
    \cup { AVAILABLE_MODELS[i] : i \in 1..Len(AVAILABLE_MODELS) }
    \cup { idDeepseekExp, idDeepseekCoder, idDeepseekR1, idPixtral12b, idLlamaVision }

\* file types handed to the matcher: the four known ones and unknown ones
KnownFileTypes == { "pdf", "image", "docx", "pptx" }
FileTypes == KnownFileTypes \cup { "zip", "" }

FileCategories == { "document", "image", "unknown" }

FileCounts == 0..MaxCount

(***************************************************************************)
(* modelMatcher                                                            *)
(***************************************************************************)
\* a family test that tries the generic llama marker before llama+vision
getModelFamily_LlamaFirst(modelId) ==
    LET modelLower == toLowerCase(modelId) IN
    IF includes(modelLower, mDeepseek) THEN "deepseek"
    ELSE IF includes(modelLower, mPixtral) THEN "pixtral"
    ELSE IF includes(modelLower, mLlama) THEN "llama"
    ELSE IF includes(modelLower, mLlama) /\ includes(modelLower, mVision)
         THEN "llama-vision"
    ELSE IF includes(modelLower, mQwen) THEN "qwen"
    ELSE IF includes(modelLower, mGemma) THEN "gemma"
    ELSE "unknown"

\* getModelFamily: first marker that matches, in the order of the code
getModelFamily(modelId) ==
    LET modelLower == toLowerCase(modelId) IN
    IF includes(modelLower, mDeepseek) THEN "deepseek"
    ELSE IF includes(modelLower, mPixtral) THEN "pixtral"
    ELSE IF includes(modelLower, mLlama) /\ includes(modelLower, mVision)
         THEN "llama-vision"
    ELSE IF includes(modelLower, mQwen) THEN "qwen"
    ELSE IF includes(modelLower, mLlama) THEN "llama"
    ELSE IF includes(modelLower, mGemma) THEN "gemma"
    ELSE "unknown"

\* getModelCapabilities, the fields the router reads
getModelCapabilities(modelId) ==
    LET modelFamily == getModelFamily(modelId) IN
    IF modelFamily = "deepseek"
    THEN [supportsPdf |-> TRUE, supportsImages |-> FALSE, contextWindow |-> 128000]
    ELSE IF modelFamily = "pixtral" \/ modelFamily = "llama-vision"
    THEN [supportsPdf |-> FALSE, supportsImages |-> TRUE, contextWindow |-> 32000]
    ELSE [supportsPdf |-> FALSE, supportsImages |-> FALSE, contextWindow |-> 8000]

modelSupportsPdf(modelId) == getModelFamily(modelId) = "deepseek"

modelSupportsImages(modelId) ==
    LET fam == getModelFamily(modelId) IN
    fam = "pixtral" \/ fam = "llama-vision"

\* no recommended model (null)
NoModel == << >>

\* the entry of getCompatibleModels for an unsupported file type
unsupportedEntry ==
    [ compatibleModels |-> [all |-> FALSE, list |-> << >>],
      recommendedModel |-> NoModel, hasRecommended |-> FALSE,
      reason |-> "Unsupported file type",
      maxFiles |-> 0, supportsNative |-> FALSE, category |-> "unknown" ]

\* the entry of getCompatibleModels for docx and pptx
extractionEntry ==
    [ compatibleModels |-> [all |-> TRUE, list |-> << >>],
      recommendedModel |-> idDeepseekExp, hasRecommended |-> TRUE,
      reason |-> "Text will be extracted and sent to any model. DeepSeek supports up to 3 files.",
      maxFiles |-> 3, supportsNative |-> FALSE, category |-> "general" ]

\* the entry of getCompatibleModels for pdf
pdfEntry ==
    [ compatibleModels |-> [all |-> FALSE,
                            list |-> <<idDeepseekExp, idDeepseekCoder, idDeepseekR1>>],
      recommendedModel |-> idDeepseekExp, hasRecommended |-> TRUE,
      reason |-> "DeepSeek models support native PDF reading with 128K context",
      maxFiles |-> 3, supportsNative |-> TRUE, category |-> "pdf_analysis" ]

\* the entry of getCompatibleModels for image
imageEntry ==
    [ compatibleModels |-> [all |-> FALSE, list |-> <<idPixtral12b, idLlamaVision>>],
      recommendedModel |-> idPixtral12b, hasRecommended |-> TRUE,
      reason |-> "Vision models can analyze images directly",
      maxFiles |-> 10, supportsNative |-> TRUE, category |-> "vision" ]

\* a table whose extraction branch tests docx only
getCompatibleModels_DocxOnly(fileType, fileCategory) ==
    IF fileType = "pdf" THEN pdfEntry
    ELSE IF fileType = "image" THEN imageEntry
    ELSE IF fileType = "docx" THEN extractionEntry
    ELSE unsupportedEntry

\* getCompatibleModels: compatibleModels is the literal 'all' (all = TRUE)
\* or an array of ids (list); fileCategory is not read
getCompatibleModels(fileType, fileCategory) ==
    IF fileType = "pdf" THEN pdfEntry
    ELSE IF fileType = "image" THEN imageEntry
    ELSE IF fileType = "docx" \/ fileType = "pptx" THEN extractionEntry
    ELSE unsupportedEntry

\* a cap that takes the per-type default of getCompatibleModels for every model
getMaxFiles_PerTypeDefault(modelId, fileType) ==
    getCompatibleModels(fileType, "unknown").maxFiles

\* a cap that knows only pixtral as a vision family
getMaxFiles_PixtralOnly(modelId, fileType) ==
    LET modelFamily == getModelFamily(modelId) IN
    IF modelFamily = "deepseek" /\ fileType \in { "pdf", "docx", "pptx" } THEN 3
    ELSE IF modelFamily = "pixtral" /\ fileType = "image" THEN 10
    ELSE 1

\* getMaxFilesForModelAndType: the model-and-type-aware cap
getMaxFilesForModelAndType(modelId, fileType) ==
    LET modelFamily == getModelFamily(modelId) IN
    IF modelFamily = "deepseek" /\ fileType \in { "pdf", "docx", "pptx" } THEN 3
    ELSE IF (modelFamily = "pixtral" \/ modelFamily = "llama-vision")
            /\ fileType = "image" THEN 10
    ELSE 1

\* a test that accepts every recognised family
modelAccepts_AnyKnownFamily(currentModel, compatibleModels) ==
    \/ compatibleModels.all
    \/ arrayIncludes(compatibleModels.list, currentModel)
    \/ getModelFamily(currentModel) # "unknown"

\* the test the code makes before it looks at the count
modelAccepts(currentModel, compatibleModels) ==
    \/ compatibleModels.all
    \/ arrayIncludes(compatibleModels.list, currentModel)
    \/ getModelFamily(currentModel) \in { "deepseek", "pixtral", "llama-vision" }

\* a limit test that already rejects the last allowed file
limitExceeded_AtCap(fileCount, maxFiles) == fileCount >= maxFiles

\* exceedsLimit of checkModelCompatibility
limitExceeded(fileCount, maxFiles) == fileCount > maxFiles

\* an action flag that forgets the count
needsAction_ModelOnly(isCompatible, exceedsLimit) == ~isCompatible

\* actionRequired of checkModelCompatibility
needsAction(isCompatible, exceedsLimit) == ~isCompatible \/ exceedsLimit

\* checkModelCompatibility whose isCompatible ignores the cap
checkModelCompatibility_RawCompatible(currentModel, fileType, fileCategory, fileCount) ==
    LET compatibilityInfo == getCompatibleModels(fileType, fileCategory)
        compatibleModels  == compatibilityInfo.compatibleModels
        isCompatible      == modelAccepts(currentModel, compatibleModels)
        maxFiles          == getMaxFilesForModelAndType(currentModel, fileType)
        exceedsLimit      == limitExceeded(fileCount, maxFiles)
    IN  [ isCompatible     |-> isCompatible,
          currentModel     |-> currentModel,
          fileType         |-> fileType,
          fileCount        |-> fileCount,
          maxFiles         |-> maxFiles,
          exceedsLimit     |-> exceedsLimit,
          recommendedModel |-> compatibilityInfo.recommendedModel,
          hasRecommended   |-> compatibilityInfo.hasRecommended,
          compatibleModels |-> compatibleModels,
          reason           |-> compatibilityInfo.reason,
          actionRequired   |-> needsAction(isCompatible, exceedsLimit) ]

checkModelCompatibility(currentModel, fileType, fileCategory, fileCount) ==
    LET compatibilityInfo == getCompatibleModels(fileType, fileCategory)
        compatibleModels  == compatibilityInfo.compatibleModels
        isCompatible      == modelAccepts(currentModel, compatibleModels)
        maxFiles          == getMaxFilesForModelAndType(currentModel, fileType)
        exceedsLimit      == limitExceeded(fileCount, maxFiles)
    IN  [ isCompatible     |-> isCompatible /\ ~exceedsLimit,
          currentModel     |-> currentModel,
          fileType         |-> fileType,
          fileCount        |-> fileCount,
          maxFiles         |-> maxFiles,
          exceedsLimit     |-> exceedsLimit,
          recommendedModel |-> compatibilityInfo.recommendedModel,
          hasRecommended   |-> compatibilityInfo.hasRecommended,
          compatibleModels |-> compatibleModels,
          reason           |-> compatibilityInfo.reason,
          actionRequired   |-> needsAction(isCompatible, exceedsLimit) ]

(***************************************************************************)
(* fileAnalyzer                                                            *)
(***************************************************************************)
\* the fileType of an unsupported file (null)
Null == "null"

\* FILE_CATEGORIES, in the order Object.entries yields its keys
FILE_CATEGORIES == <<
    [ fileType |-> "pdf",
      extensions |-> <<<<".", "p", "d", "f">>>>,
      mimeTypes |-> <<"application/pdf">>,
      category |-> "document" ],
    [ fileType |-> "image",
      extensions |-> <<<<".", "j", "p", "g">>, <<".", "j", "p", "e", "g">>, <<".", "p", "n", "g">>, <<".", "g", "i", "f">>, <<".", "b", "m", "p">>, <<".", "w", "e", "b", "p">>>>,
      mimeTypes |-> <<"image/jpeg", "image/png", "image/gif", "image/bmp", "image/webp">>,
      category |-> "image" ],
    [ fileType |-> "docx",
      extensions |-> <<<<".", "d", "o", "c">>, <<".", "d", "o", "c", "x">>>>,
      mimeTypes |-> <<"application/msword",
                      "application/vnd.openxmlformats-officedocument.wordprocessingml.document">>,
      category |-> "document" ],
    [ fileType |-> "pptx",
      extensions |-> <<<<".", "p", "p", "t">>, <<".", "p", "p", "t", "x">>>>,
      mimeTypes |-> <<"application/vnd.ms-powerpoint",
                      "application/vnd.openxmlformats-officedocument.presentationml.presentation">>,
      category |-> "document" ] >>

\* String.prototype.lastIndexOf('.'), as a 1-based position, 0 when absent
lastDotOf(filename) ==
    LET dots == { i \in 1..Len(filename) : filename[i] = "." } IN
    IF dots = {} THEN 0 ELSE CHOOSE i \in dots : \A j \in dots : j <= i

\* getFileExtension: from the last dot on, lower-cased; empty without a dot
getFileExtension(filename) ==
    LET lastDot == lastDotOf(filename) IN
    IF lastDot # 0 THEN toLowerCase(SubSeq(filename, lastDot, Len(filename)))
    ELSE << >>

\* the loop of detectFileType from entry k on: per category, the extension
\* test and then the MIME test
RECURSIVE detectFrom(_, _, _)
detectFrom(k, extension, mimeType) ==
    IF k > Len(FILE_CATEGORIES) THEN Null
    ELSE IF arrayIncludes(FILE_CATEGORIES[k].extensions, extension)
         THEN FILE_CATEGORIES[k].fileType
    ELSE IF arrayIncludes(FILE_CATEGORIES[k].mimeTypes, mimeType)
         THEN FILE_CATEGORIES[k].fileType
    ELSE detectFrom(k + 1, extension, mimeType)

\* a detection that looks at the extension only
detectFileType_ExtensionOnly(extension, mimeType) == detectFrom(1, extension, "")

detectFileType(extension, mimeType) == detectFrom(1, extension, mimeType)

\* a category lookup that takes every supported type for a document
categoryOf_Document(fileType) == "document"

\* FILE_CATEGORIES[fileType].category
categoryOf(fileType) ==
    LET k == CHOOSE i \in 1..Len(FILE_CATEGORIES) : FILE_CATEGORIES[i].fileType = fileType
    IN  FILE_CATEGORIES[k].category

\* parseFloat((size / (1024 * 1024)).toFixed(2)), in hundredths of a megabyte:
\* toFixed rounds to the nearest hundredth, the larger one on a tie.  Whole
\* megabytes and the remainder are converted apart to stay within TLC's integers.
fileSizeMBOf(size) ==
    (size \div 1048576) * 100 + ((size % 1048576) * 100 + 524288) \div 1048576

\* analyzeFile; file is a File: name, type (the declared MIME type), size
analyzeFile(file) ==
    LET fileExtension == getFileExtension(file.name)
        fileType      == detectFileType(fileExtension, file.type)
    IN  [ filename      |-> file.name,
          fileSize      |-> file.size,
          fileSizeMB    |-> fileSizeMBOf(file.size),
          fileExtension |-> fileExtension,
          fileType      |-> fileType,
          category      |-> IF fileType # Null THEN categoryOf(fileType) ELSE "unknown",
          isSupported   |-> fileType # Null ]

(***************************************************************************)
(* Inputs: files.  A name is a stem followed by an ending; the endings are *)
(* the extensions of the table in several letter cases, unknown ones, a    *)
(* lone dot and none.                                                      *)
(***************************************************************************)
Stems == { <<"a">>, <<"a", ".", "p", "d", "f">>, << >> }

Endings ==
    { << >>,
      <<".">>,
      <<".", "p", "d", "f">>,
      <<".", "P", "D", "F">>,
      <<".", "j", "p", "g">>,
      <<".", "j", "p", "e", "g">>,
      <<".", "J", "P", "E", "G">>,
      <<".", "p", "n", "g">>,
      <<".", "g", "i", "f">>,
      <<".", "b", "m", "p">>,
      <<".", "w", "e", "b", "p">>,
      <<".", "d", "o", "c">>,
      <<".", "d", "o", "c", "x">>,
      <<".", "D", "o", "c", "x">>,
      <<".", "p", "p", "t">>,
      <<".", "p", "p", "t", "x">>,
      <<".", "P", "P", "T", "X">>,
      <<".", "z", "i", "p">>,
      <<".", "p", "d", "f", "x">> }

FileNames == { st \o e : st \in Stems, e \in Endings }

MimeTypes ==
    { "application/pdf",
      "image/jpeg", "image/png", "image/gif", "image/bmp", "image/webp",
      "application/msword",
      "application/vnd.openxmlformats-officedocument.wordprocessingml.document",
      "application/vnd.ms-powerpoint",
      "application/vnd.openxmlformats-officedocument.presentationml.presentation",
      "application/zip", "" }

FileSizes == { 0, 5242, 5243, 52428800, 52434043, 104857600 }

Files == [ name : FileNames, type : MimeTypes, size : FileSizes ]

(***************************************************************************)
(* suggestionFormatter: formatSuggestion                                   *)
(*                                                                         *)
(* A JavaScript value is a record: t is its type, n its number, s its      *)
(* string, a its array; the fields its type does not use are void.         *)
(***************************************************************************)
Undefined == [t |-> "undefined", n |-> 0, s |-> << >>, a |-> << >>]
JsNull    == [t |-> "null",      n |-> 0, s |-> << >>, a |-> << >>]
Num(k)    == [t |-> "number",    n |-> k, s |-> << >>, a |-> << >>]
Str(str)  == [t |-> "string",    n |-> 0, s |-> str,   a |-> << >>]
Arr(arr)  == [t |-> "array",     n |-> 0, s |-> << >>, a |-> arr]

\* ToBoolean: undefined, null, 0 and '' are falsy, every array is truthy
truthy(v) ==
    CASE v.t = "undefined" -> FALSE
      [] v.t = "null"      -> FALSE
      [] v.t = "number"    -> v.n # 0
      [] v.t = "string"    -> v.s # << >>
      [] OTHER             -> TRUE

\* the operator ||
or(x, y) == IF truthy(x) THEN x ELSE y

\* the string literals of formatSuggestion
sInfo   == <<"i", "n", "f", "o">>
sNotice == <<"N", "o", "t", "i", "c", "e">>
sOK     == <<"O", "K">>
sLow    == <<"l", "o", "w">>

\* formatSuggestion; a key the object lacks reads as undefined
formatSuggestion(backendSuggestion) ==
    [ type             |-> or(backendSuggestion.type, Str(sInfo)),
      title            |-> or(backendSuggestion.title, Str(sNotice)),
      message          |-> or(backendSuggestion.message, Str(<< >>)),
      details          |-> or(backendSuggestion.details, Str(<< >>)),
      action           |-> or(backendSuggestion.action, JsNull),
      actionText       |-> or(or(backendSuggestion.actionText, backendSuggestion.action_text),
                              Str(sOK)),
      severity         |-> or(backendSuggestion.severity, Str(sLow)),
      recommendedModel |-> or(backendSuggestion.recommendedModel,
                              backendSuggestion.recommended_model),
      compatibleModels |-> or(or(backendSuggestion.compatibleModels,
                                 backendSuggestion.compatible_models), Arr(<< >>)),
      maxFiles         |-> or(backendSuggestion.maxFiles, backendSuggestion.max_files),
      currentCount     |-> or(backendSuggestion.currentCount,
                              backendSuggestion.current_count) ]

\* the object without any key
EmptyObject ==
    [ type |-> Undefined, title |-> Undefined, message |-> Undefined,
      details |-> Undefined, action |-> Undefined, actionText |-> Undefined,
      action_text |-> Undefined, severity |-> Undefined,
      recommendedModel |-> Undefined, recommended_model |-> Undefined,
      compatibleModels |-> Undefined, compatible_models |-> Undefined,
      maxFiles |-> Undefined, max_files |-> Undefined,
      currentCount |-> Undefined, current_count |-> Undefined ]

(***************************************************************************)
(* Inputs: backend suggestions.  The four fields that have two names are   *)
(* given values; naming tells under which names the object carries them.   *)
(***************************************************************************)
GivenValues ==
    [ recommendedModel : { Undefined, JsNull, Str(<< >>), Str(idDeepseekExp) },
      compatibleModels : { Undefined, JsNull, Arr(<< >>), Arr(<<idDeepseekExp, idDeepseekR1>>) },
      maxFiles         : { Undefined, Num(0), Num(1), Num(3) },
      currentCount     : { Undefined, Num(0), Num(2), Num(4) },
      action           : { Undefined, Str(<<"r", "e", "m", "o", "v", "e", "_", "f", "i", "l", "e", "s">>) } ]

Namings == { "camelCase", "snake_case" }

\* the backend suggestion that carries the given values under a naming
withNaming(naming, given) ==
    IF naming = "camelCase"
    THEN [EmptyObject EXCEPT !.action = given.action,
                             !.recommendedModel = given.recommendedModel,
                             !.compatibleModels = given.compatibleModels,
                             !.maxFiles = given.maxFiles,
                             !.currentCount = given.currentCount]
    ELSE [EmptyObject EXCEPT !.action = given.action,
                             !.recommended_model = given.recommendedModel,
                             !.compatible_models = given.compatibleModels,
                             !.max_files = given.maxFiles,
                             !.current_count = given.currentCount]

NoGiven ==
    [ recommendedModel |-> Undefined, compatibleModels |-> Undefined,
      maxFiles |-> Undefined, currentCount |-> Undefined, action |-> Undefined ]

(***************************************************************************)
(* SuggestionBuilder: build(compatibility, fileDescriptor)                 *)
(*                                                                         *)
(* The builder runs on the server.  It is the table of conditions read     *)
(* from top to bottom, the first condition that holds giving the row.      *)
(* Where a row names two actions either may be the one returned, so build  *)
(* is the set of suggestions the builder may return.                       *)
(***************************************************************************)
suggestionOf(type, action, severity, compatibility) ==
    [ type |-> type, action |-> action, severity |-> severity,
      recommendedModel |-> compatibility.recommendedModel,
      compatibleModels |-> compatibility.compatibleModels ]

build(compatibility, fileDescriptor) ==
    IF ~fileDescriptor.isSupported
        THEN { suggestionOf("error", Null, "high", compatibility) }
    ELSE IF compatibility.isCompatible
        THEN { suggestionOf("success", "proceed", "low", compatibility) }
    ELSE IF compatibility.exceedsLimit
        THEN { suggestionOf("warning", act, "medium", compatibility) :
                 act \in { "reduce_files", "remove_files" } }
    ELSE IF compatibility.hasRecommended
        THEN { suggestionOf("suggestion", "switch_model", "medium", compatibility) }
    ELSE { suggestionOf("error", act, "high", compatibility) :
             act \in { "continue_anyway", Null } }

\* the models and files of the pairs handed to the builder
BuildModels == { idDeepseekExp, idPixtral12b, AVAILABLE_MODELS[1], << >> }

BuildFiles ==
    { [name |-> <<"a", ".", "p", "d", "f">>, type |-> "application/pdf", size |-> 5243],
      [name |-> <<"a", ".", "p", "n", "g">>, type |-> "image/png", size |-> 5243],
      [name |-> <<"a", ".", "d", "o", "c", "x">>, type |-> "", size |-> 5243],
      [name |-> <<"a", ".", "z", "i", "p">>, type |-> "application/zip", size |-> 5243] }

(***************************************************************************)
(* State machine: the initial state draws a call, the action of the called *)
(* function applies it.                                                    *)
(***************************************************************************)
NoDecision == checkModelCompatibility(<< >>, "", "unknown", 0)
NoFamily   == "unknown"
NoFile     == [name |-> << >>, type |-> "", size |-> 0]
NoAnalysis == analyzeFile(NoFile)

NoInput ==
    [ fn |-> "none", modelId |-> << >>, fileType |-> "", fileCategory |-> "unknown",
      fileCount |-> 0, file |-> NoFile, naming |-> "camelCase", given |-> NoGiven ]

(***************************************************************************)
(* helpers: isPDFAnalysisModel, getMaxPDFsForModel; fileAnalyzer:          *)
(* validateFileSize                                                        *)
(***************************************************************************)
pdfModels ==
    << <<"p", "r", "o", "v", "i", "d", "e", "r", "-", "1", "/", "d", "e", "e", "p", "s", "e", "e", "k", "-", "v", "3", ".", "2", "-", "e", "x", "p">>,
       <<"p", "r", "o", "v", "i", "d", "e", "r", "-", "1", "/", "d", "e", "e", "p", "s", "e", "e", "k", "-", "v", "3", ".", "1">>,
       <<"p", "r", "o", "v", "i", "d", "e", "r", "-", "3", "/", "d", "e", "e", "p", "s", "e", "e", "k", "-", "v", "3">> >>

isPDFAnalysisModel(modelId) == arrayIncludes(pdfModels, modelId)

getMaxPDFsForModel(modelId) == IF isPDFAnalysisModel(modelId) THEN 3 ELSE 1

\* validateFileSize with the default maximum; sizes are hundredths of a MB
defaultMaxSizeMB == 50

validateFileSize(fileSizeMB) ==
    IF fileSizeMB > defaultMaxSizeMB * 100
    THEN [isValid |-> FALSE]
    ELSE [isValid |-> TRUE]

(***************************************************************************)
(* The chat page: values of its state                                      *)
(***************************************************************************)
MaxSelections == 1      \* files selected in one behaviour
MaxModelChanges == 1    \* models picked in the selector in one behaviour

defaultModel == AVAILABLE_MODELS[1]

\* the models the user picks in the selector
UserModels == { defaultModel, AVAILABLE_MODELS[8] }

\* the files the user selects: a small pdf, an archive, and a file of
\* 100 MB without extension that the browser declares as pdf
smallPdf   == [name |-> <<"a", ".", "p", "d", "f">>, type |-> "application/pdf", size |-> 5243]
archive    == [name |-> <<"a", ".", "z", "i", "p">>, type |-> "application/zip", size |-> 5243]
bareBigPdf == [name |-> <<"a">>, type |-> "application/pdf", size |-> 104857600]

ChatFiles == { smallPdf, archive, bareBigPdf }

\* a Suggestion, by the fields the page and the modal read
NoSuggestion ==
    [ type |-> "info", title |-> "", action |-> Null, severity |-> "low",
      recommendedModel |-> NoModel ]

\* the error suggestions the page makes itself
errorSuggestion(title) ==
    [ type |-> "error", title |-> title, action |-> Null, severity |-> "high",
      recommendedModel |-> NoModel ]

\* a suggestion of the server; its title is the server's
fromServer(type, action, severity, recommendedModel) ==
    [ type |-> type, title |-> "from server", action |-> action,
      severity |-> severity, recommendedModel |-> recommendedModel ]

\* the suggestions a response of the server may carry
ServerSuggestions ==
    { fromServer("success", "proceed", "low", NoModel),
      fromServer("suggestion", "switch_model", "medium", pdfModels[2]),
      fromServer("suggestion", "switch_model", "medium", NoModel),
      fromServer("warning", "remove_files", "medium", pdfModels[2]),
      fromServer("warning", "reduce_files", "medium", NoModel),
      fromServer("error", "continue_anyway", "high", NoModel),
      fromServer("error", Null, "high", NoModel) }

closedModal == [isOpen |-> FALSE, suggestion |-> NoSuggestion, pendingFile |-> NoFile]

\* an asynchronous call in flight: kind is the call awaited; file, model,
\* convId, optId, pdfs and modelId are what the closure that continues after
\* it captured, current_files what was sent with the call, and via the
\* caller of performUpload, which continues after it; call tells the calls
\* of handleUploadPDF apart: two selections of the same file are two calls;
\* action is the argument of handleModalAction, when that is the caller
NoTask ==
    [ kind |-> "none", file |-> NoFile, model |-> NoModel, convId |-> 0,
      optId |-> 0, pdfs |-> << >>, current_files |-> [ft \in KnownFileTypes |-> 0],
      via |-> "none", modelId |-> NoModel, call |-> 0, action |-> Null ]

\* the page after mount
chatStart ==
    /\ selectedModel = defaultModel
    /\ previousModel = defaultModel
    /\ uploadedPDFs = << >>
    /\ isUploadingPDF = FALSE
    /\ isAnalyzingFile = FALSE
    /\ conversationId = 0
    /\ suggestionModal = closedModal
    /\ isProcessing = FALSE
    /\ tasks = {}
    /\ server = [conversations |-> 0, pdfs |-> << >>]
    /\ selections = 0
    /\ modelChanges = 0

\* the page at rest in a session in which the two supported files were
\* uploaded under the recommended model
sessionDocs ==
    << [id |-> 1, filename |-> smallPdf.name, fileType |-> analyzeFile(smallPdf).fileType],
       [id |-> 2, filename |-> bareBigPdf.name, fileType |-> analyzeFile(bareBigPdf).fileType] >>

chatSession ==
    /\ selectedModel = pdfModels[2]
    /\ previousModel = pdfModels[2]
    /\ uploadedPDFs = [i \in 1..Len(sessionDocs) |->
                          [id |-> sessionDocs[i].id, filename |-> sessionDocs[i].filename,
                           fileType |-> sessionDocs[i].fileType, temp |-> FALSE]]
    /\ isUploadingPDF = FALSE
    /\ isAnalyzingFile = FALSE
    /\ conversationId = 1
    /\ suggestionModal = closedModal
    /\ isProcessing = FALSE
    /\ tasks = {}
    /\ server = [conversations |-> 1,
                 pdfs |-> [i \in 1..Len(sessionDocs) |->
                              [id |-> sessionDocs[i].id,
                               filename |-> sessionDocs[i].filename,
                               fileType |-> sessionDocs[i].fileType, convId |-> 1]]]
    /\ selections = 0
    /\ modelChanges = 0

(***************************************************************************)
(* useChatHistory: the sessions of the sidebar                             *)
(***************************************************************************)
MaxConversations == 2   \* conversations the backend holds at the start

NoHistoryTask == [kind |-> "none", id |-> 0]

\* the hook at rest on a page that is in conversation conv (0: in none)
historyAt(conv) ==
    /\ sessions = IF conv = 0 THEN {} ELSE {conv}
    /\ currentSessionId = conv
    /\ conversations = IF conv = 0 THEN {} ELSE {conv}
    /\ historyTasks = {}

(***************************************************************************)
(* domainValidator and useAuth                                             *)
(***************************************************************************)
APPROVED_DOMAINS == << [domain |-> <<"b", "m", "s", "i", "t", ".", "i", "n">>] >>

\* String.prototype.split with a separator of one character
RECURSIVE split(_, _)
split(s, sep) ==
    IF ~\E i \in 1..Len(s) : s[i] = sep THEN <<s>>
    ELSE LET i == CHOOSE k \in 1..Len(s) :
                     s[k] = sep /\ \A j \in 1..(k - 1) : s[j] # sep
         IN  <<SubSeq(s, 1, i - 1)>> \o split(SubSeq(s, i + 1, Len(s)), sep)

NoEmail == << >>

\* an element of an array, undefined (here the empty string) beyond its end
at(arr, k) == IF k <= Len(arr) THEN arr[k] ELSE << >>

isCollegeEmail(email) ==
    IF email = NoEmail THEN FALSE
    ELSE LET domain == at(split(toLowerCase(email), "@"), 2) IN
         IF domain = << >> THEN FALSE
         ELSE \E i \in 1..Len(APPROVED_DOMAINS) :
                 toLowerCase(APPROVED_DOMAINS[i].domain) = domain

\* getDomain: the domain of an email, null (here the empty string) unless
\* the email has exactly one @
getDomain(email) ==
    IF email = NoEmail THEN << >>
    ELSE LET parts == split(email, "@") IN
         IF Len(parts) = 2 THEN toLowerCase(parts[2]) ELSE << >>

NoUser == [present |-> FALSE, email |-> NoEmail]
NoSession == [present |-> FALSE, user |-> NoUser]

\* the emails a user of the Supabase project may have; email is optional in
\* the User of Supabase
Emails ==
    { NoEmail, <<"s", "@", "b", "m", "s", "i", "t", ".", "i", "n">>, <<"S", "@", "B", "M", "S", "I", "T", ".", "I", "N">>,
      <<"s", "@", "g", "m", "a", "i", "l", ".", "c", "o", "m">>, <<"b", "m", "s", "i", "t", ".", "i", "n">> }

AuthSessions ==
    { NoSession } \cup
    { [present |-> TRUE, user |-> [present |-> TRUE, email |-> e]] : e \in Emails }

MaxAuthEvents == 3   \* changes of the Supabase session in one behaviour

NoAuthTask == [kind |-> "none", session |-> NoSession]

\* the hook idle, nobody signed in
authStart ==
    /\ user = NoUser
    /\ loading = TRUE
    /\ showRestrictionModal = FALSE
    /\ restrictedEmail = NoEmail
    /\ authSession = NoSession
    /\ authTasks = {}
    /\ authEvents = 0

FamilyInputs ==
    { [NoInput EXCEPT !.fn = "getModelFamily", !.modelId = m] : m \in ModelIds }

CheckInputs ==
    { [NoInput EXCEPT !.fn = "checkModelCompatibility", !.modelId = m,
                      !.fileType = t, !.fileCategory = c, !.fileCount = n] :
        m \in ModelIds, t \in FileTypes, c \in FileCategories, n \in FileCounts }

AnalyzeInputs ==
    { [NoInput EXCEPT !.fn = "analyzeFile", !.file = f] : f \in Files }

FormatInputs ==
    { [NoInput EXCEPT !.fn = "formatSuggestion", !.naming = nm, !.given = g] :
        nm \in Namings, g \in GivenValues }

NoFormatted == formatSuggestion(EmptyObject)

BuildInputs ==
    { [NoInput EXCEPT !.fn = "build", !.modelId = m, !.fileType = t,
                      !.fileCategory = c, !.fileCount = n, !.file = f] :
        m \in BuildModels, t \in FileTypes, c \in FileCategories,
        n \in FileCounts, f \in BuildFiles }

NoBuilt == suggestionOf("info", Null, "low", NoDecision)

\* the model ids the page's cap is asked for: those of the router's
\* inputs and the three the page knows as PDF analysis models
SupportInputs ==
    { [NoInput EXCEPT !.fn = "getMaxPDFsForModel", !.modelId = m] :
        m \in ModelIds \cup { pdfModels[i] : i \in 1..Len(pdfModels) } }

NoPdfSupport == [isPDFModel |-> FALSE, maxPDFs |-> 0]

Init ==
    /\ input \in FamilyInputs \cup CheckInputs \cup AnalyzeInputs \cup FormatInputs
                \cup BuildInputs \cup SupportInputs
    /\ op = "none"
    /\ decision = NoDecision
    /\ family = NoFamily
    /\ analysis = NoAnalysis
    /\ formatted = NoFormatted
    /\ built = NoBuilt
    /\ pdfSupport = NoPdfSupport
    /\ chatStart
    /\ historyAt(0)
    /\ authStart

CallGetModelFamily ==
    /\ op = "none"
    /\ input.fn = "getModelFamily"
    /\ op' = "getModelFamily"
    /\ family' = getModelFamily(input.modelId)
    /\ UNCHANGED <<input, decision, analysis, formatted, built, pdfSupport, chatVars,
                   historyVars, authVars>>

CallCheckModelCompatibility ==
    /\ op = "none"
    /\ input.fn = "checkModelCompatibility"
    /\ op' = "checkModelCompatibility"
    /\ decision' = checkModelCompatibility(input.modelId, input.fileType,
                                           input.fileCategory, input.fileCount)
    /\ UNCHANGED <<input, family, analysis, formatted, built, pdfSupport, chatVars,
                   historyVars, authVars>>

CallAnalyzeFile ==
    /\ op = "none"
    /\ input.fn = "analyzeFile"
    /\ op' = "analyzeFile"
    /\ analysis' = analyzeFile(input.file)
    /\ UNCHANGED <<input, decision, family, formatted, built, pdfSupport, chatVars,
                   historyVars, authVars>>

CallFormatSuggestion ==
    /\ op = "none"
    /\ input.fn = "formatSuggestion"
    /\ op' = "formatSuggestion"
    /\ formatted' = formatSuggestion(withNaming(input.naming, input.given))
    /\ UNCHANGED <<input, decision, family, analysis, built, pdfSupport, chatVars,
                   historyVars, authVars>>

\* the server's pipeline on one request: analyse, check, build
CallBuild ==
    /\ op = "none"
    /\ input.fn = "build"
    /\ op' = "build"
    /\ analysis' = analyzeFile(input.file)
    /\ decision' = checkModelCompatibility(input.modelId, input.fileType,
                                           input.fileCategory, input.fileCount)
    /\ built' \in build(decision', analysis')
    /\ UNCHANGED <<input, family, formatted, pdfSupport, chatVars,
                   historyVars, authVars>>

\* the chat page derives isPDFModel and maxPDFs from the selected model
CallGetMaxPDFsForModel ==
    /\ op = "none"
    /\ input.fn = "getMaxPDFsForModel"
    /\ op' = "getMaxPDFsForModel"
    /\ pdfSupport' = [isPDFModel |-> isPDFAnalysisModel(input.modelId),
                      maxPDFs |-> getMaxPDFsForModel(input.modelId)]
    /\ UNCHANGED <<input, decision, family, analysis, formatted, built, chatVars,
                   historyVars, authVars>>

Next ==
    \/ CallGetMaxPDFsForModel
    \/ CallGetModelFamily
    \/ CallCheckModelCompatibility
    \/ CallAnalyzeFile
    \/ CallFormatSuggestion
    \/ CallBuild

Spec == Init /\ [][Next]_vars

(***************************************************************************)
(* Properties of checkModelCompatibility                                   *)
(***************************************************************************)
Checked == op = "checkModelCompatibility"

\* the family of the model the decision is about
decisionFamily == getModelFamily(decision.currentModel)

\* C1: exceedsLimit is true exactly when the decision's fileCount is greater
\* than the decision's maxFiles; fileCount = maxFiles does not exceed,
\* fileCount = maxFiles + 1 does.
C1_ExceedsLimitIffOverCap ==
    Checked =>
        /\ decision.exceedsLimit <=> (decision.fileCount > decision.maxFiles)
        /\ decision.fileCount = decision.maxFiles => ~decision.exceedsLimit
        /\ decision.fileCount = decision.maxFiles + 1 => decision.exceedsLimit

C1_Witness ==
    /\ Checked
    /\ decision.maxFiles = 3
    /\ decision.fileCount = decision.maxFiles + 1
    /\ decision.exceedsLimit

\* the accepted-type set of a model: docx and pptx for every model, pdf for
\* models that support pdf, image for models that support images
acceptedTypes(modelId) ==
    { "docx", "pptx" }
    \cup (IF modelSupportsPdf(modelId) /\ getModelCapabilities(modelId).supportsPdf
          THEN { "pdf" } ELSE { })
    \cup (IF modelSupportsImages(modelId) /\ getModelCapabilities(modelId).supportsImages
          THEN { "image" } ELSE { })

\* C2: isCompatible is true exactly when the file type is in the current
\* model's accepted-type set and exceedsLimit is false.
C2_CompatibleIffAcceptedAndWithinCap ==
    Checked =>
        (decision.isCompatible <=>
            (/\ decision.fileType \in acceptedTypes(decision.currentModel)
             /\ ~decision.exceedsLimit))

\* C3: for a file type that is none of pdf, image, docx, pptx and a count of
\* at least 1, the decision has maxFiles = 1 and isCompatible = false,
\* whatever the model.
C3_UnknownTypeMostRestrictive ==
    (Checked /\ decision.fileType \notin KnownFileTypes /\ decision.fileCount >= 1) =>
        (decision.maxFiles = 1 /\ ~decision.isCompatible)

\* C4: actionRequired is true exactly when the returned isCompatible is
\* false or the returned exceedsLimit is true.
C4_ActionRequiredIffBlocked ==
    Checked =>
        (decision.actionRequired <=> (~decision.isCompatible \/ decision.exceedsLimit))

C4_Witness ==
    /\ Checked
    /\ decision.fileType = "pdf"
    /\ decision.exceedsLimit
    /\ decisionFamily = "deepseek"
    /\ decision.actionRequired

\* C5: maxFiles is 3 for pdf, docx and pptx when the model id contains
\* "deepseek" in any letter case, 10 for image when the family is pixtral or
\* llama-vision, and 1 for every other pair of model and file type.
C5_ModelAndTypeAwareCap ==
    Checked =>
        decision.maxFiles =
            IF /\ includes(toLowerCase(decision.currentModel), mDeepseek)
               /\ decision.fileType \in { "pdf", "docx", "pptx" }
            THEN 3
            ELSE IF /\ decisionFamily \in { "pixtral", "llama-vision" }
                    /\ decision.fileType = "image"
            THEN 10
            ELSE 1

C5_Witness ==
    /\ Checked
    /\ decision.fileType = "image"
    /\ includes(toLowerCase(decision.currentModel), mDeepseek)
    /\ decision.currentModel # toLowerCase(decision.currentModel)
    /\ decision.maxFiles = 1

\* C7: for docx and pptx and any model, compatibleModels is "all" and
\* isCompatible is true exactly when the count is at most the model's cap,
\* 3 for the deepseek family and 1 for every other family.
C7_ExtractionTypesAllModels ==
    (Checked /\ decision.fileType \in { "docx", "pptx" }) =>
        /\ decision.compatibleModels.all
        /\ decision.isCompatible <=>
              (decision.fileCount <= IF decisionFamily = "deepseek" THEN 3 ELSE 1)

C7_Witness ==
    /\ Checked
    /\ decision.fileType = "pptx"
    /\ decision.currentModel = AVAILABLE_MODELS[8]
    /\ decision.fileCount = 3
    /\ decision.isCompatible

\* C8: for an image and a model of family pixtral or llama-vision,
\* isCompatible is true exactly when the count is at most 10.
C8_VisionImagesUpToTen ==
    (Checked /\ decision.fileType = "image"
             /\ decisionFamily \in { "pixtral", "llama-vision" }) =>
        (decision.isCompatible <=> decision.fileCount <= 10)

C8_Witness ==
    /\ Checked
    /\ decision.fileType = "image"
    /\ decisionFamily = "llama-vision"
    /\ decision.fileCount = 10
    /\ decision.isCompatible

Markers == <<
    [family |-> "deepseek",     needs |-> { mDeepseek }],
    [family |-> "pixtral",      needs |-> { mPixtral }],
    [family |-> "llama-vision", needs |-> { mLlama, mVision }],
    [family |-> "qwen",         needs |-> { mQwen }],
    [family |-> "llama",        needs |-> { mLlama }],
    [family |-> "gemma",        needs |-> { mGemma }] >>

markerMatches(k, modelId) ==
    \A mk \in Markers[k].needs : includes(toLowerCase(modelId), mk)

\* C6: the family is that of the first marker matching case-insensitively in
\* the order deepseek, pixtral, llama+vision, qwen, llama, gemma, and
\* "unknown" without a match; an id containing "deepseek" is deepseek, an id
\* containing "llama" and "vision" is never "llama".
C6_FirstMarkerWins ==
    op = "getModelFamily" =>
        LET id      == input.modelId
            matches == { k \in 1..Len(Markers) : markerMatches(k, id) }
        IN  /\ matches = {} => family = "unknown"
            /\ matches # {} =>
                  family = Markers[CHOOSE k \in matches : \A j \in matches : k <= j].family
            /\ includes(toLowerCase(id), mDeepseek) => family = "deepseek"
            /\ (includes(toLowerCase(id), mLlama) /\ includes(toLowerCase(id), mVision))
                  => family # "llama"

C6_Witness ==
    /\ op = "getModelFamily"
    /\ input.modelId # toLowerCase(input.modelId)
    /\ includes(toLowerCase(input.modelId), mLlama)
    /\ includes(toLowerCase(input.modelId), mVision)
    /\ family = "llama-vision"

(***************************************************************************)
(* Properties of analyzeFile                                               *)
(***************************************************************************)
Analyzed == op = "analyzeFile"

\* the categories of FILE_CATEGORIES that list the extension
typesOfExtension(extension) ==
    { FILE_CATEGORIES[k].fileType :
        k \in { i \in 1..Len(FILE_CATEGORIES) :
                  arrayIncludes(FILE_CATEGORIES[i].extensions, extension) } }

\* C10: a file whose name has a recognized extension, in any letter case, is
\* supported and has the file type of that extension's category, whatever
\* its declared MIME type.
C10_ExtensionDecidesType ==
    (Analyzed /\ typesOfExtension(getFileExtension(input.file.name)) # {}) =>
        /\ analysis.isSupported
        /\ analysis.fileType \in typesOfExtension(getFileExtension(input.file.name))

\* the categories of FILE_CATEGORIES that list the MIME type
typesOfMime(mimeType) ==
    { FILE_CATEGORIES[k].fileType :
        k \in { i \in 1..Len(FILE_CATEGORIES) :
                  arrayIncludes(FILE_CATEGORIES[i].mimeTypes, mimeType) } }

\* C11: a file whose extension is absent or not recognized is supported with
\* the file type of the category owning its MIME type when the MIME type is
\* in the table; with neither a recognized extension nor a recognized MIME
\* type the result is a descriptor of the file with isSupported = false.
C11_MimeAloneDecidesType ==
    (Analyzed /\ typesOfExtension(getFileExtension(input.file.name)) = {}) =>
        IF typesOfMime(input.file.type) # {}
        THEN /\ analysis.isSupported
             /\ typesOfMime(input.file.type) = { analysis.fileType }
        ELSE /\ ~analysis.isSupported
             /\ analysis.fileType = Null
             /\ analysis.filename = input.file.name
             /\ analysis.fileSize = input.file.size

C11_Witness ==
    /\ Analyzed
    /\ getFileExtension(input.file.name) = << >>
    /\ input.file.type = "image/png"
    /\ analysis.isSupported
    /\ analysis.fileType = "image"

\* C12: every result of analyzeFile has one fileType out of pdf, image, docx,
\* pptx and null; isSupported is false exactly for null; category is
\* "unknown" exactly for null, "image" exactly for image and "document"
\* exactly for pdf, docx and pptx.
C12_DescriptorFieldsAgree ==
    Analyzed =>
        /\ analysis.fileType \in KnownFileTypes \cup { Null }
        /\ ~analysis.isSupported <=> analysis.fileType = Null
        /\ analysis.category = "unknown" <=> analysis.fileType = Null
        /\ analysis.category = "image" <=> analysis.fileType = "image"
        /\ analysis.category = "document" <=> analysis.fileType \in { "pdf", "docx", "pptx" }

C12_Witness ==
    /\ Analyzed
    /\ analysis.fileType = "image"
    /\ analysis.category = "image"
    /\ analysis.isSupported

(***************************************************************************)
(* Properties of formatSuggestion                                          *)
(***************************************************************************)
otherNaming(naming) == IF naming = "camelCase" THEN "snake_case" ELSE "camelCase"

\* C20: for every value of recommendedModel, compatibleModels, maxFiles and
\* currentCount, the suggestion formatted from the snake_case names equals
\* the one formatted from the camelCase names, and a value that is given is
\* the value returned.
C20_NamingConventionsAgree ==
    op = "formatSuggestion" =>
        /\ formatted = formatSuggestion(withNaming(otherNaming(input.naming), input.given))
        /\ \A k \in { "recommendedModel", "compatibleModels", "maxFiles", "currentCount" } :
              input.given[k] # Undefined => formatted[k] = input.given[k]

(***************************************************************************)
(* Properties of SuggestionBuilder.build                                   *)
(***************************************************************************)
Built == op = "build"

builtTriple(type, actions, severity) ==
    /\ built.type = type
    /\ built.action \in actions
    /\ built.severity = severity

splitPop(filename) == SubSeq(filename, lastDotOf(filename) + 1, Len(filename))

\* the type under which handleUploadPDF counts an attached document
countedType(pdf) ==
    LET ext == toLowerCase(splitPop(pdf.filename)) IN
    IF ext = <<"p", "d", "f">> THEN "pdf"
    ELSE IF arrayIncludes(<< <<"d", "o", "c">>, <<"d", "o", "c", "x">> >>, ext) THEN "docx"
    ELSE IF arrayIncludes(<< <<"p", "p", "t">>, <<"p", "p", "t", "x">> >>, ext) THEN "pptx"
    ELSE IF arrayIncludes(<< <<"j", "p", "g">>, <<"j", "p", "e", "g">>, <<"p", "n", "g">>, <<"g", "i", "f">>, <<"b", "m", "p">>, <<"w", "e", "b", "p">> >>, ext)
         THEN "image"
    ELSE Null

\* fileCounts of handleUploadPDF; a key never set reads as 0
fileCountsOf(pdfs) ==
    [ft \in KnownFileTypes |->
        Cardinality({ i \in 1..Len(pdfs) : countedType(pdfs[i]) = ft })]

\* the test of handleUploadPDF on the client's analysis: always passed
clientAccepts_Always(file) == TRUE

\* the test of handleUploadPDF on the client's analysis
clientAccepts(file) == analyzeFile(file).isSupported

\* the test of handleUploadPDF on the server's suggestion: any action passes
uploadsDirectly_AnyAction(suggestion) == suggestion.action # Null

\* the test of handleUploadPDF on the server's suggestion
uploadsDirectly(suggestion) == suggestion.action = "proceed"

\* the modals the page opens by itself
unsupportedModal ==
    [ isOpen |-> TRUE, suggestion |-> errorSuggestion("Unsupported File Type"),
      pendingFile |-> NoFile ]

uploadFailedModal ==
    [ isOpen |-> TRUE, suggestion |-> errorSuggestion("Upload Failed"),
      pendingFile |-> NoFile ]

\* the modal of the catch block that keeps the file for a retry
analysisFailedModal_KeepsFile(file) ==
    [ isOpen |-> TRUE,
      suggestion |-> [errorSuggestion("Analysis Failed") EXCEPT
                         !.action = "continue_anyway"],
      pendingFile |-> file ]

\* the modal of the catch block of handleUploadPDF
analysisFailedModal(file) ==
    [ isOpen |-> TRUE, suggestion |-> errorSuggestion("Analysis Failed"),
      pendingFile |-> NoFile ]

modelChangedModal ==
    [ isOpen |-> TRUE,
      suggestion |-> [type |-> "warning", title |-> "Model Changed", action |-> Null,
                      severity |-> "medium", recommendedModel |-> idDeepseekExp],
      pendingFile |-> NoFile ]

slice1(pdfs) == SubSeq(pdfs, 2, Len(pdfs))                \* slice(1)
sliceButLast(pdfs) == SubSeq(pdfs, 1, Len(pdfs) - 1)      \* slice(0, -1)
sliceLast(pdfs) ==                                        \* slice(-1)
    IF pdfs = << >> THEN << >> ELSE SubSeq(pdfs, Len(pdfs), Len(pdfs))

RECURSIVE filterSeq(_, _)
filterSeq(seq, keep) ==
    IF seq = << >> THEN << >>
    ELSE IF seq[1].id \in keep THEN <<seq[1]>> \o filterSeq(Tail(seq), keep)
    ELSE filterSeq(Tail(seq), keep)

idsOf(seq) == { seq[i].id : i \in 1..Len(seq) }

withoutIds(seq, ids) == filterSeq(seq, idsOf(seq) \ ids)

\* the model-change effect has not yet run for the values of this render
effectPending ==
    /\ previousModel # selectedModel
    /\ ~\E t \in tasks : /\ t.kind = "cleanup"
                         /\ t.model = selectedModel
                         /\ t.pdfs = uploadedPDFs

\* the user can act: the effects of the last render have run, and neither
\* the timer of 100 ms nor the deletions of the model-change effect are
\* waiting; the user's next click comes after them
userCanAct ==
    /\ ~effectPending
    /\ ~\E t \in tasks : t.kind \in { "setTimeout", "cleanup" }

\* generateId: an identifier no document on the page, on the server or in
\* a closure has
generateId ==
    LET used == idsOf(uploadedPDFs) \cup idsOf(server.pdfs)
                  \cup UNION { idsOf(t.pdfs) : t \in tasks }
                  \cup { t.optId : t \in tasks }
    IN  CHOOSE id \in 1..(Cardinality(used) + 1) : id \notin used

\* performUpload(file) run in a closure that captured conv and model (and
\* modelId with the timer), the list of documents being base when it
\* starts; rest are the other tasks
beginUpload(file, conv, model, via, modelId, call, action, base, rest) ==
    /\ uploadedPDFs' = Append(base, [id |-> generateId, filename |-> file.name,
                                     fileType |-> analyzeFile(file).fileType,
                                     temp |-> TRUE])
    /\ isUploadingPDF' = TRUE
    /\ tasks' = rest \cup { [NoTask EXCEPT !.kind = "uploadPDF", !.file = file,
                                           !.model = model, !.convId = conv,
                                           !.optId = generateId, !.via = via,
                                           !.modelId = modelId, !.call = call,
                                           !.action = action] }

performUpload(file, conv, model, via, modelId, call, action, base, rest) ==
    IF conv = 0
    THEN /\ tasks' = rest \cup { [NoTask EXCEPT !.kind = "createNewSession",
                                                !.file = file, !.model = model,
                                                !.via = via, !.modelId = modelId,
                                                !.call = call, !.action = action] }
         /\ uploadedPDFs' = base
         /\ UNCHANGED isUploadingPDF
    ELSE beginUpload(file, conv, model, via, modelId, call, action, base, rest)

\* the user selects a file: handleUploadPDF up to its await
SelectFile(file) ==
    /\ userCanAct
    /\ ~isUploadingPDF /\ ~isAnalyzingFile
    /\ Len(uploadedPDFs) < getMaxPDFsForModel(selectedModel)
    /\ ~suggestionModal.isOpen
    /\ selections < MaxSelections
    /\ selections' = selections + 1
    /\ IF ~clientAccepts(file)
       THEN /\ suggestionModal' = unsupportedModal
            /\ UNCHANGED <<isAnalyzingFile, tasks>>
       ELSE /\ isAnalyzingFile' = TRUE
            /\ tasks' = tasks \cup
                  { [NoTask EXCEPT !.kind = "analyzeFileUpload",
                                   !.file = file,
                                   !.model = selectedModel,
                                   !.convId = conversationId,
                                   !.call = selections + 1,
                                   !.current_files = fileCountsOf(uploadedPDFs) ] }
            /\ UNCHANGED suggestionModal
    /\ UNCHANGED <<selectedModel, previousModel, uploadedPDFs, isUploadingPDF,
                   conversationId, isProcessing, server,
                   modelChanges, pureVars,
                   historyVars, authVars>>

\* analyzeFileUpload answers: the rest of handleUploadPDF's try block
AnalyzeReturn(t, suggestion) ==
    /\ ~effectPending
    /\ t \in tasks /\ t.kind = "analyzeFileUpload"
    /\ isAnalyzingFile' = FALSE
    /\ IF uploadsDirectly(suggestion)
       THEN /\ performUpload(t.file, t.convId, t.model, "handleUploadPDF", NoModel, t.call, Null,
                             uploadedPDFs, tasks \ {t})
            /\ UNCHANGED suggestionModal
       ELSE /\ suggestionModal' = [isOpen |-> TRUE, suggestion |-> suggestion,
                                   pendingFile |-> t.file]
            /\ tasks' = tasks \ {t}
            /\ UNCHANGED <<uploadedPDFs, isUploadingPDF>>
    /\ UNCHANGED <<selectedModel, previousModel, conversationId, isProcessing,
                   server, selections, modelChanges, pureVars,
                   historyVars, authVars>>

\* analyzeFileUpload throws: the catch block of handleUploadPDF
AnalyzeFail(t) ==
    /\ ~effectPending
    /\ t \in tasks /\ t.kind = "analyzeFileUpload"
    /\ isAnalyzingFile' = FALSE
    /\ suggestionModal' = analysisFailedModal(t.file)
    /\ tasks' = tasks \ {t}
    /\ UNCHANGED <<selectedModel, previousModel, uploadedPDFs, isUploadingPDF,
                   conversationId, isProcessing, server, selections,
                   modelChanges, pureVars,
                   historyVars, authVars>>

\* what follows performUpload in its caller: handleModalAction closes the
\* modal and handleAction resets isProcessing
modalAfter(via, modal) == IF via = "handleModalAction" THEN closedModal ELSE modal
processingAfter(via) == IF via = "handleModalAction" THEN FALSE ELSE isProcessing

\* createNewSession answers with a session: performUpload goes on, and the
\* effect on currentSessionId loads the documents of the session
CreateReturn(t) ==
    /\ ~effectPending
    /\ t \in tasks /\ t.kind = "createNewSession"
    /\ LET convId == server.conversations + 1 IN
       /\ server' = [server EXCEPT !.conversations = convId]
       /\ conversations' = conversations \cup {convId}
       /\ sessions' = sessions \cup {convId}
       /\ currentSessionId' = convId
       /\ conversationId' = convId
       /\ beginUpload(t.file, convId, t.model, t.via, t.modelId, t.call, t.action,
                      uploadedPDFs,
                      (tasks \ {t}) \cup
                        { [NoTask EXCEPT !.kind = "getConversationPDFs",
                                         !.convId = convId] })
    /\ UNCHANGED <<selectedModel, previousModel, isAnalyzingFile,
                   suggestionModal, isProcessing, selections, modelChanges,
                   pureVars, historyTasks, authVars>>

\* createNewSession answers null: performUpload returns
CreateFail(t) ==
    /\ ~effectPending
    /\ t \in tasks /\ t.kind = "createNewSession"
    /\ tasks' = tasks \ {t}
    /\ suggestionModal' = modalAfter(t.via, suggestionModal)
    /\ isProcessing' = processingAfter(t.via)
    /\ UNCHANGED <<selectedModel, previousModel, uploadedPDFs, isUploadingPDF,
                   isAnalyzingFile, conversationId, server, selections,
                   modelChanges, pureVars,
                   historyVars, authVars>>

\* the documents the server holds for a conversation, as the page lists them
storedFor(convId) ==
    LET ids  == { server.pdfs[i].id :
                    i \in { j \in 1..Len(server.pdfs) : server.pdfs[j].convId = convId } }
        kept == filterSeq(server.pdfs, ids)
    IN  [i \in 1..Len(kept) |->
            [id |-> kept[i].id, filename |-> kept[i].filename,
             fileType |-> kept[i].fileType, temp |-> FALSE]]

\* getConversationPDFs answers: loadConversationPDFs sets the list
LoadReturn(t) ==
    /\ ~effectPending
    /\ t \in tasks /\ t.kind = "getConversationPDFs"
    /\ tasks' = tasks \ {t}
    /\ uploadedPDFs' = storedFor(t.convId)
    /\ UNCHANGED <<selectedModel, previousModel, isUploadingPDF,
                   isAnalyzingFile, conversationId, suggestionModal,
                   isProcessing, server, selections, modelChanges, pureVars,
                   historyVars, authVars>>

\* getConversationPDFs throws: loadConversationPDFs empties the list
LoadFail(t) ==
    /\ ~effectPending
    /\ t \in tasks /\ t.kind = "getConversationPDFs"
    /\ tasks' = tasks \ {t}
    /\ uploadedPDFs' = << >>
    /\ UNCHANGED <<selectedModel, previousModel, isUploadingPDF,
                   isAnalyzingFile, conversationId, suggestionModal,
                   isProcessing, server, selections, modelChanges, pureVars,
                   historyVars, authVars>>

\* uploadPDF answers: the server stores the document under an id of its
\* own (file_id), which the optimistic entry, if still listed, takes over
UploadReturn(t) ==
    /\ ~effectPending
    /\ t \in tasks /\ t.kind = "uploadPDF"
    /\ tasks' = tasks \ {t}
    /\ server' = [server EXCEPT !.pdfs =
                     Append(@, [id |-> generateId, filename |-> t.file.name,
                                fileType |-> analyzeFile(t.file).fileType,
                                convId |-> t.convId])]
    /\ uploadedPDFs' = [i \in 1..Len(uploadedPDFs) |->
                           IF uploadedPDFs[i].id = t.optId /\ uploadedPDFs[i].temp
                           THEN [uploadedPDFs[i] EXCEPT !.id = generateId,
                                                        !.temp = FALSE]
                           ELSE uploadedPDFs[i]]
    /\ isUploadingPDF' = FALSE
    /\ suggestionModal' = modalAfter(t.via, suggestionModal)
    /\ isProcessing' = processingAfter(t.via)
    /\ UNCHANGED <<selectedModel, previousModel, isAnalyzingFile,
                   conversationId, selections, modelChanges, pureVars,
                   historyVars, authVars>>

\* uploadPDF throws: the optimistic entry is taken back
UploadFail(t) ==
    /\ ~effectPending
    /\ t \in tasks /\ t.kind = "uploadPDF"
    /\ tasks' = tasks \ {t}
    /\ uploadedPDFs' =
          filterSeq(uploadedPDFs,
                    { uploadedPDFs[i].id :
                        i \in { j \in 1..Len(uploadedPDFs) :
                                  ~(uploadedPDFs[j].id = t.optId /\ uploadedPDFs[j].temp) } })
    /\ isUploadingPDF' = FALSE
    /\ suggestionModal' = modalAfter(t.via, uploadFailedModal)
    /\ isProcessing' = processingAfter(t.via)
    /\ UNCHANGED <<selectedModel, previousModel, isAnalyzingFile,
                   conversationId, server, selections,
                   modelChanges, pureVars,
                   historyVars, authVars>>

\* the action button of the modal can be pressed
ModalOpenForAction ==
    /\ userCanAct
    /\ suggestionModal.isOpen
    /\ ~isProcessing

\* handleAction of a suggestion without action: onClose
ModalAcceptNoAction ==
    /\ ModalOpenForAction
    /\ suggestionModal.suggestion.action = Null
    /\ suggestionModal' = closedModal
    /\ UNCHANGED <<selectedModel, previousModel, uploadedPDFs, isUploadingPDF,
                   isAnalyzingFile, conversationId, isProcessing, tasks,
                   server, selections, modelChanges, pureVars,
                   historyVars, authVars>>

\* handleModalAction, cases proceed and continue_anyway
ModalAcceptUpload ==
    /\ ModalOpenForAction
    /\ suggestionModal.suggestion.action \in { "proceed", "continue_anyway" }
    /\ suggestionModal.pendingFile # NoFile
    /\ isProcessing' = TRUE
    /\ performUpload(suggestionModal.pendingFile, conversationId, selectedModel,
                     "handleModalAction", NoModel, selections,
                     suggestionModal.suggestion.action, uploadedPDFs, tasks)
    /\ UNCHANGED <<selectedModel, previousModel, isAnalyzingFile,
                   conversationId, suggestionModal, server, selections,
                   modelChanges, pureVars,
                   historyVars, authVars>>

\* handleModalAction, case switch_model
ModalAcceptSwitchModel ==
    /\ ModalOpenForAction
    /\ suggestionModal.suggestion.action = "switch_model"
    /\ suggestionModal.pendingFile # NoFile
    /\ IF suggestionModal.suggestion.recommendedModel # NoModel
       THEN /\ selectedModel' = suggestionModal.suggestion.recommendedModel
            /\ tasks' = tasks \cup
                  { [NoTask EXCEPT !.kind = "setTimeout",
                                   !.file = suggestionModal.pendingFile,
                                   !.model = selectedModel,
                                   !.convId = conversationId,
                                   !.call = selections,
                                   !.action = "switch_model",
                                   !.modelId =
                                       suggestionModal.suggestion.recommendedModel] }
       ELSE UNCHANGED <<selectedModel, tasks>>
    /\ suggestionModal' = closedModal
    /\ UNCHANGED <<previousModel, uploadedPDFs, isUploadingPDF,
                   isAnalyzingFile, conversationId, isProcessing, server,
                   selections, modelChanges, pureVars,
                   historyVars, authVars>>

\* the timer of switch_model fires: performUpload of the closure that set it
TimerFire(t) ==
    /\ ~effectPending
    /\ t \in tasks /\ t.kind = "setTimeout"
    /\ performUpload(t.file, t.convId, t.model, "setTimeout", t.modelId, t.call, t.action,
                     uploadedPDFs,
                     tasks \ {t})
    /\ UNCHANGED <<selectedModel, previousModel, isAnalyzingFile,
                   conversationId, suggestionModal, isProcessing, server,
                   selections, modelChanges, pureVars,
                   historyVars, authVars>>

\* handleModalAction, case remove_files, up to its first await
ModalAcceptRemoveFiles ==
    /\ ModalOpenForAction
    /\ suggestionModal.suggestion.action = "remove_files"
    /\ suggestionModal.pendingFile # NoFile
    /\ isProcessing' = TRUE
    /\ IF sliceButLast(uploadedPDFs) = << >>
       THEN performUpload(suggestionModal.pendingFile, conversationId, selectedModel,
                          "handleModalAction", NoModel, selections, "remove_files",
                          sliceLast(uploadedPDFs), tasks)
       ELSE /\ tasks' = tasks \cup
                  { [NoTask EXCEPT !.kind = "deletePDF",
                                   !.file = suggestionModal.pendingFile,
                                   !.model = selectedModel,
                                   !.convId = conversationId,
                                   !.via = "handleModalAction",
                                   !.call = selections,
                                   !.action = "remove_files",
                                   !.pdfs = uploadedPDFs] }
            /\ UNCHANGED <<uploadedPDFs, isUploadingPDF>>
    /\ UNCHANGED <<selectedModel, previousModel, isAnalyzingFile,
                   conversationId, suggestionModal, server, selections,
                   modelChanges, pureVars,
                   historyVars, authVars>>

\* the deletions of remove_files are through: the first n succeeded; with
\* all of them the list is cut to its last entry and the upload goes on,
\* otherwise the catch block leaves the modal as it is
RemoveFilesReturn(t, n) ==
    /\ ~effectPending
    /\ t \in tasks /\ t.kind = "deletePDF"
    /\ n \in 0..Len(sliceButLast(t.pdfs))
    /\ server' = [server EXCEPT !.pdfs =
                     withoutIds(@, idsOf(SubSeq(t.pdfs, 1, n)))]
    /\ IF n = Len(sliceButLast(t.pdfs))
       THEN /\ performUpload(t.file, t.convId, t.model, "handleModalAction", NoModel, t.call, t.action,
                             sliceLast(t.pdfs), tasks \ {t})
            /\ UNCHANGED isProcessing
       ELSE /\ tasks' = tasks \ {t}
            /\ isProcessing' = FALSE
            /\ UNCHANGED <<uploadedPDFs, isUploadingPDF>>
    /\ UNCHANGED <<selectedModel, previousModel, isAnalyzingFile,
                   conversationId, suggestionModal, selections, modelChanges, pureVars,
                   historyVars, authVars>>

\* handleModalAction, default case (reduce_files, compress_file)
ModalAcceptOther ==
    /\ ModalOpenForAction
    /\ suggestionModal.suggestion.action \in { "reduce_files", "compress_file" }
    /\ suggestionModal.pendingFile # NoFile
    /\ suggestionModal' = closedModal
    /\ UNCHANGED <<selectedModel, previousModel, uploadedPDFs, isUploadingPDF,
                   isAnalyzingFile, conversationId, isProcessing, tasks,
                   server, selections, modelChanges, pureVars,
                   historyVars, authVars>>

\* handleModalClose: the X and the Cancel button
ModalClose ==
    /\ userCanAct
    /\ suggestionModal.isOpen
    /\ suggestionModal' = closedModal
    /\ isProcessing' = FALSE
    /\ UNCHANGED <<selectedModel, previousModel, uploadedPDFs, isUploadingPDF,
                   isAnalyzingFile, conversationId, tasks, server,
                   selections, modelChanges, pureVars,
                   historyVars, authVars>>

\* the user picks a model in the selector
ChangeModel(modelId) ==
    /\ userCanAct
    /\ ~suggestionModal.isOpen
    /\ modelId # selectedModel
    /\ modelChanges < MaxModelChanges
    /\ modelChanges' = modelChanges + 1
    /\ selectedModel' = modelId
    /\ UNCHANGED <<previousModel, uploadedPDFs, isUploadingPDF,
                   isAnalyzingFile, conversationId, suggestionModal,
                   isProcessing, tasks, server, selections,
                   pureVars,
                   historyVars, authVars>>

\* the effect on selectedModel, up to its first await
HandleModelChange ==
    /\ effectPending
    /\ IF ~isPDFAnalysisModel(selectedModel) /\ Len(uploadedPDFs) > 1
       THEN /\ tasks' = tasks \cup { [NoTask EXCEPT !.kind = "cleanup",
                                                    !.model = selectedModel,
                                                    !.pdfs = uploadedPDFs] }
            /\ UNCHANGED previousModel
       ELSE /\ previousModel' = selectedModel
            /\ UNCHANGED tasks
    /\ UNCHANGED <<selectedModel, uploadedPDFs, isUploadingPDF,
                   isAnalyzingFile, conversationId, suggestionModal,
                   isProcessing, server, selections, modelChanges, pureVars,
                   historyVars, authVars>>

\* the deletions of the effect are through: all of them succeeded or none
CleanupReturn(t, deleted) ==
    /\ ~effectPending
    /\ t \in tasks /\ t.kind = "cleanup"
    /\ deleted \in { {}, idsOf(slice1(t.pdfs)) }
    /\ tasks' = tasks \ {t}
    /\ server' = [server EXCEPT !.pdfs = withoutIds(@, deleted)]
    /\ uploadedPDFs' = <<t.pdfs[1]>>
    /\ suggestionModal' = modelChangedModal
    /\ previousModel' = t.model
    /\ UNCHANGED <<selectedModel, isUploadingPDF, isAnalyzingFile,
                   conversationId, isProcessing, selections,
                   modelChanges, pureVars,
                   historyVars, authVars>>

\* no function of the router is being called
pureIdle ==
    /\ input = NoInput
    /\ op = "none"
    /\ decision = NoDecision
    /\ family = NoFamily
    /\ analysis = NoAnalysis
    /\ formatted = NoFormatted
    /\ built = NoBuilt
    /\ pdfSupport = NoPdfSupport

ChatInit ==
    /\ pureIdle
    /\ (chatStart /\ historyAt(0)) \/ (chatSession /\ historyAt(1))
    /\ authStart

ChatNext ==
    \/ \E file \in ChatFiles : SelectFile(file)
    \/ \E t \in tasks, suggestion \in ServerSuggestions : AnalyzeReturn(t, suggestion)
    \/ \E t \in tasks : AnalyzeFail(t)
    \/ \E t \in tasks : CreateReturn(t)
    \/ \E t \in tasks : CreateFail(t)
    \/ \E t \in tasks : LoadReturn(t)
    \/ \E t \in tasks : LoadFail(t)
    \/ \E t \in tasks : UploadReturn(t)
    \/ \E t \in tasks : UploadFail(t)
    \/ ModalAcceptNoAction
    \/ ModalAcceptUpload
    \/ ModalAcceptSwitchModel
    \/ \E t \in tasks : TimerFire(t)
    \/ ModalAcceptRemoveFiles
    \/ \E t \in tasks : \E n \in 0..Len(t.pdfs) : RemoveFilesReturn(t, n)
    \/ ModalAcceptOther
    \/ ModalClose
    \/ \E modelId \in UserModels : ChangeModel(modelId)
    \/ HandleModelChange
    \/ \E t \in tasks : \E deleted \in SUBSET idsOf(t.pdfs) : CleanupReturn(t, deleted)

SpecChat == ChatInit /\ [][ChatNext]_vars

(***************************************************************************)
(* The sidebar of the chat page: useChatHistory and the page's handlers    *)
(***************************************************************************)
MaxNewChats == 1   \* presses of "New Chat" in one behaviour

\* the state of the page that the handlers of the sidebar leave alone
chatRest ==
    <<selectedModel, previousModel, isUploadingPDF, isAnalyzingFile,
      suggestionModal, isProcessing, selections, modelChanges>>

\* the effect on currentSessionId: the documents of the session are loaded,
\* and without a session the list is emptied
sessionEffect(before, after, shown, pdfs, rest) ==
    IF after = before THEN uploadedPDFs' = pdfs /\ tasks' = rest
    ELSE IF after = 0 THEN uploadedPDFs' = << >> /\ tasks' = rest
    ELSE IF after \in shown
         THEN /\ uploadedPDFs' = pdfs
              /\ tasks' = rest \cup { [NoTask EXCEPT !.kind = "getConversationPDFs",
                                                     !.convId = after] }
    ELSE uploadedPDFs' = pdfs /\ tasks' = rest

\* fetchChatHistory answers: the sidebar shows the backend's conversations
HistoryReturn(t) ==
    /\ t \in historyTasks /\ t.kind = "fetchChatHistory"
    /\ historyTasks' = historyTasks \ {t}
    /\ sessions' = conversations
    /\ UNCHANGED <<currentSessionId, conversations, chatVars, pureVars, authVars>>

\* fetchChatHistory throws: the sessions shown are kept
HistoryFail(t) ==
    /\ t \in historyTasks /\ t.kind = "fetchChatHistory"
    /\ historyTasks' = historyTasks \ {t}
    /\ UNCHANGED <<sessions, currentSessionId, conversations, chatVars,
                   pureVars, authVars>>

\* handleSelectSession, with the effect on currentSessionId
HandleSelectSession(sessionId) ==
    /\ sessionId \in sessions
    /\ currentSessionId' = sessionId
    /\ conversationId' = sessionId
    /\ sessionEffect(currentSessionId, sessionId, sessions, uploadedPDFs, tasks)
    /\ UNCHANGED <<sessions, conversations, historyTasks, server, chatRest,
                   pureVars, authVars>>

\* handleNewChat up to its await of createNewSession
HandleNewChat ==
    /\ server.conversations < MaxConversations + MaxNewChats
    /\ ~\E t \in historyTasks : t.kind = "createConversation"
    /\ historyTasks' = historyTasks \cup { [NoHistoryTask EXCEPT !.kind = "createConversation"] }
    /\ UNCHANGED <<sessions, currentSessionId, conversations, chatVars,
                   pureVars, authVars>>

\* createConversation answers: createNewSession shows the new session and
\* makes it the current one, handleNewChat empties the list of documents
NewChatReturn(t) ==
    /\ t \in historyTasks /\ t.kind = "createConversation"
    /\ LET convId == server.conversations + 1 IN
       /\ server' = [server EXCEPT !.conversations = convId]
       /\ conversations' = conversations \cup {convId}
       /\ sessions' = sessions \cup {convId}
       /\ currentSessionId' = convId
       /\ conversationId' = convId
       /\ sessionEffect(currentSessionId, convId, sessions \cup {convId}, << >>, tasks)
    /\ historyTasks' = historyTasks \ {t}
    /\ UNCHANGED <<chatRest, pureVars, authVars>>

\* createConversation throws: createNewSession answers null, handleNewChat
\* empties the list of documents all the same
NewChatFail(t) ==
    /\ t \in historyTasks /\ t.kind = "createConversation"
    /\ historyTasks' = historyTasks \ {t}
    /\ uploadedPDFs' = << >>
    /\ UNCHANGED <<sessions, currentSessionId, conversations, conversationId,
                   tasks, server, chatRest, pureVars, authVars>>

\* handleDeleteSession: the page leaves the conversation if it is the one
\* deleted; deleteSession of the hook removes the session from the sidebar
\* and starts deleteConversation without awaiting it, so the await of the
\* page resolves at once and the handler is through
HandleDeleteSession(sessionId) ==
    /\ sessionId \in sessions
    /\ LET leaves == conversationId # 0 /\ sessionId = conversationId
           current == IF currentSessionId = sessionId THEN 0 ELSE currentSessionId
       IN  /\ conversationId' = IF leaves THEN 0 ELSE conversationId
           /\ sessions' = sessions \ {sessionId}
           /\ currentSessionId' = current
           /\ sessionEffect(currentSessionId, current, sessions \ {sessionId},
                            IF leaves THEN << >> ELSE uploadedPDFs, tasks)
    /\ historyTasks' = historyTasks \cup
                          { [NoHistoryTask EXCEPT !.kind = "deleteConversation",
                                                  !.id = sessionId] }
    /\ UNCHANGED <<conversations, server, chatRest, pureVars, authVars>>

\* deleteConversation answers: the backend has deleted the conversation
DeleteReturn(t) ==
    /\ t \in historyTasks /\ t.kind = "deleteConversation"
    /\ historyTasks' = historyTasks \ {t}
    /\ conversations' = conversations \ {t.id}
    /\ UNCHANGED <<sessions, currentSessionId, chatVars, pureVars, authVars>>

\* deleteConversation throws: the catch of deleteSession logs the error
DeleteFail(t) ==
    /\ t \in historyTasks /\ t.kind = "deleteConversation"
    /\ historyTasks' = historyTasks \ {t}
    /\ UNCHANGED <<sessions, currentSessionId, conversations, chatVars,
                   pureVars, authVars>>

\* the page has mounted: the hook has called loadChatHistory, the backend
\* holds conversations, the first of them with the documents of sessionDocs
HistoryInit ==
    /\ pureIdle
    /\ selectedModel = pdfModels[2]
    /\ previousModel = pdfModels[2]
    /\ uploadedPDFs = << >>
    /\ isUploadingPDF = FALSE
    /\ isAnalyzingFile = FALSE
    /\ conversationId = 0
    /\ suggestionModal = closedModal
    /\ isProcessing = FALSE
    /\ tasks = {}
    /\ server = [conversations |-> MaxConversations,
                 pdfs |-> [i \in 1..Len(sessionDocs) |->
                              [id |-> sessionDocs[i].id,
                               filename |-> sessionDocs[i].filename,
                               fileType |-> sessionDocs[i].fileType, convId |-> 1]]]
    /\ selections = 0
    /\ modelChanges = 0
    /\ sessions = {}
    /\ currentSessionId = 0
    /\ conversations = 1..MaxConversations
    /\ historyTasks = { [NoHistoryTask EXCEPT !.kind = "fetchChatHistory"] }
    /\ authStart

HistoryNext ==
    \/ \E t \in historyTasks : HistoryReturn(t)
    \/ \E t \in historyTasks : HistoryFail(t)
    \/ \E sessionId \in sessions : HandleSelectSession(sessionId)
    \/ HandleNewChat
    \/ \E t \in historyTasks : NewChatReturn(t)
    \/ \E t \in historyTasks : NewChatFail(t)
    \/ \E sessionId \in sessions : HandleDeleteSession(sessionId)
    \/ \E t \in historyTasks : DeleteReturn(t)
    \/ \E t \in historyTasks : DeleteFail(t)
    \/ \E t \in tasks : LoadReturn(t)
    \/ \E t \in tasks : LoadFail(t)

SpecHistory == HistoryInit /\ [][HistoryNext]_vars

(***************************************************************************)

(* useAuth: the session of Supabase behind the gate of college emails      *)
(***************************************************************************)
\* the branches that initAuth and the listener of onAuthStateChange share:
\* a session whose user has an email passes the check of the domain or
\* opens the modal; fallback is the user set when there is no such email
gate(session, fallback) ==
    IF session.present /\ session.user.email # NoEmail
    THEN IF ~isCollegeEmail(session.user.email)
         THEN /\ restrictedEmail' = session.user.email
              /\ showRestrictionModal' = TRUE
              /\ user' = NoUser
         ELSE /\ user' = session.user
              /\ UNCHANGED <<restrictedEmail, showRestrictionModal>>
    ELSE /\ user' = fallback
         /\ UNCHANGED <<restrictedEmail, showRestrictionModal>>

\* getSession answers initAuth: without an email, session?.user ?? null
InitAuthReturn(t) ==
    /\ t \in authTasks /\ t.kind = "getSession"
    /\ authTasks' = authTasks \ {t}
    /\ gate(authSession, IF authSession.present THEN authSession.user ELSE NoUser)
    /\ loading' = FALSE
    /\ UNCHANGED <<authSession, authEvents, pureVars, chatVars, historyVars>>

\* getSession throws: the error is kept, loading ends
InitAuthFail(t) ==
    /\ t \in authTasks /\ t.kind = "getSession"
    /\ authTasks' = authTasks \ {t}
    /\ loading' = FALSE
    /\ UNCHANGED <<user, showRestrictionModal, restrictedEmail, authSession,
                   authEvents, pureVars, chatVars, historyVars>>

\* Supabase reports a change of the session (sign-in, sign-out, refresh of
\* the token) to the listener: without an email, null
OnAuthStateChange(session) ==
    /\ authEvents < MaxAuthEvents
    /\ authEvents' = authEvents + 1
    /\ authSession' = session
    /\ gate(session, NoUser)
    /\ UNCHANGED <<loading, authTasks, pureVars, chatVars, historyVars>>

\* signOut of the hook, Supabase signing out: the user is cleared (a
\* failure of authHelpers.signOut changes only the error)
SignOut ==
    /\ user.present
    /\ authSession' = NoSession
    /\ user' = NoUser
    /\ UNCHANGED <<loading, showRestrictionModal, restrictedEmail, authTasks,
                   authEvents, pureVars, chatVars, historyVars>>

\* closeRestrictionModal: the modal is hidden, its email cleared, and
\* authHelpers.signOut is called without await; when it succeeds the
\* listener hears of the sign-out and sets the user to null
CloseRestrictionModal(signedOut) ==
    /\ showRestrictionModal
    /\ showRestrictionModal' = FALSE
    /\ restrictedEmail' = NoEmail
    /\ authSession' = IF signedOut THEN NoSession ELSE authSession
    /\ user' = IF signedOut THEN NoUser ELSE user
    /\ UNCHANGED <<loading, authTasks, authEvents, pureVars, chatVars,
                   historyVars>>

\* the hook has mounted: initAuth waits for getSession, Supabase holds the
\* session of an earlier visit or none
AuthInit ==
    /\ pureIdle
    /\ chatStart
    /\ historyAt(0)
    /\ user = NoUser
    /\ loading = TRUE
    /\ showRestrictionModal = FALSE
    /\ restrictedEmail = NoEmail
    /\ authSession \in AuthSessions
    /\ authTasks = { [NoAuthTask EXCEPT !.kind = "getSession"] }
    /\ authEvents = 0

AuthNext ==
    \/ \E t \in authTasks : InitAuthReturn(t)
    \/ \E t \in authTasks : InitAuthFail(t)
    \/ \E session \in AuthSessions : OnAuthStateChange(session)
    \/ SignOut
    \/ \E signedOut \in BOOLEAN : CloseRestrictionModal(signedOut)

SpecAuth == AuthInit /\ [][AuthNext]_vars

(***************************************************************************)

(* Properties of the upload flow of the chat page                          *)
(***************************************************************************)
\* the calls that belong to an upload: performUpload and what leads to it
uploadKinds == { "createNewSession", "uploadPDF", "setTimeout", "deletePDF" }

\* the files the flow holds: in a call in flight or pending in the modal
filesInFlow ==
    { t.file : t \in { u \in tasks : u.kind \in uploadKinds \cup { "analyzeFileUpload" } } }
    \cup (IF suggestionModal.pendingFile # NoFile
          THEN { suggestionModal.pendingFile } ELSE {})

isErrorWithoutAction(modal) ==
    /\ modal.isOpen
    /\ modal.suggestion.type = "error"
    /\ modal.suggestion.action = Null
    /\ modal.suggestion.severity = "high"
    /\ modal.pendingFile = NoFile

\* a selection that sends no analysis request
SelectionWithoutRequest ==
    /\ selections' # selections
    /\ ~isAnalyzingFile'

\* C13: a file that analyzeFile classifies as unsupported is never sent to
\* analyzeFileUpload, never uploaded and never pending; a selection that
\* sends no request only opens a modal with type error, no action, severity
\* high and no pending file, whatever the selected model.
C13_UnsupportedShortCircuits ==
    /\ [](\A f \in filesInFlow : analyzeFile(f).isSupported)
    /\ [][SelectionWithoutRequest =>
            /\ isErrorWithoutAction(suggestionModal')
            /\ tasks' = tasks
            /\ uploadedPDFs' = uploadedPDFs
            /\ isUploadingPDF' = isUploadingPDF]_vars

\* the archive was selected under the recommended model
C13_Witness ==
    /\ suggestionModal = unsupportedModal
    /\ selectedModel = pdfModels[2]
    /\ selections = 1
    /\ tasks = {}

\* the user acts on the modal: its button or one of the ways to close it
modalStep ==
    \/ ModalAcceptNoAction \/ ModalAcceptUpload \/ ModalAcceptSwitchModel
    \/ ModalAcceptRemoveFiles \/ ModalAcceptOther \/ ModalClose

\* C14: when analyzeFileUpload fails the analyzing flag is reset, the modal
\* shows an error without action (severity high) and without pending file,
\* nothing of the file is uploaded, and no action of that modal starts a
\* call.
C14_AnalysisFailureFailsClosed ==
    [][/\ \A t \in tasks :
            AnalyzeFail(t) =>
                /\ ~isAnalyzingFile'
                /\ isErrorWithoutAction(suggestionModal')
                /\ tasks' = tasks \ {t}
                /\ uploadedPDFs' = uploadedPDFs
                /\ isUploadingPDF' = isUploadingPDF
       /\ (suggestionModal.isOpen
             /\ suggestionModal.suggestion.title = "Analysis Failed"
             /\ modalStep) => /\ tasks' = tasks
                              /\ uploadedPDFs' = uploadedPDFs
                              /\ isUploadingPDF' = isUploadingPDF]_vars

\* the analysis of the small pdf failed in a fresh page
C14_Witness ==
    /\ suggestionModal.isOpen
    /\ suggestionModal.suggestion.title = "Analysis Failed"
    /\ suggestionModal.pendingFile = NoFile
    /\ ~isAnalyzingFile
    /\ selections = 1
    /\ tasks = {}
    /\ uploadedPDFs = << >>

\* C15: a file reaches performUpload only if analyzeFile supports it and
\* validateFileSize accepts its size (at most 50 MB).
C15_TypeAndSizeCheckedBeforeUpload ==
    \A t \in tasks :
        t.kind \in { "createNewSession", "uploadPDF" } =>
            /\ analyzeFile(t.file).isSupported
            /\ validateFileSize(analyzeFile(t.file).fileSizeMB).isValid

\* a call of the upload chain that starts in this step
startsUploadCall(t) == t \in tasks' \ tasks /\ t.kind \in uploadKinds

\* the step goes on with a call of the same file that was in flight
continuesCall(t) ==
    \E t0 \in tasks \ tasks' : t0.kind \in uploadKinds /\ t0.file = t.file

\* the step is the user's press on the action button of the modal that
\* holds the file as pending
acceptsModalFor(t) ==
    /\ tasks \ tasks' = {}
    /\ suggestionModal.isOpen
    /\ suggestionModal.pendingFile = t.file
    /\ suggestionModal.suggestion.action # Null
    /\ ~isProcessing

\* the step is the answer of the server to the analysis of the file
answersAnalysisOf(t) ==
    \E t0 \in tasks \ tasks' : t0.kind = "analyzeFileUpload" /\ t0.file = t.file

\* C17: a call of the upload chain starts only in the step that takes the
\* server's answer for the file, in the user's press on the action button of
\* the modal holding the file as pending, or as the next call of a chain so
\* begun; the server's answer starts it only when its action is proceed, and
\* otherwise opens the modal with the suggestion and the file pending;
\* closing the modal starts nothing and leaves no pending file.
C17_UploadOnlyOnProceedOrAccept ==
    [][/\ \A t \in tasks' :
            startsUploadCall(t) =>
                continuesCall(t) \/ acceptsModalFor(t) \/ answersAnalysisOf(t)
       /\ \A t \in tasks, suggestion \in ServerSuggestions :
            AnalyzeReturn(t, suggestion) =>
                IF suggestion.action = "proceed"
                THEN /\ \E u \in tasks' : startsUploadCall(u) /\ u.file = t.file
                     /\ suggestionModal' = suggestionModal
                ELSE /\ ~\E u \in tasks' : startsUploadCall(u)
                     /\ uploadedPDFs' = uploadedPDFs
                     /\ suggestionModal' = [isOpen |-> TRUE, suggestion |-> suggestion,
                                            pendingFile |-> t.file]
       /\ (ModalClose \/ ModalAcceptNoAction) =>
            /\ tasks' = tasks
            /\ uploadedPDFs' = uploadedPDFs
            /\ ~suggestionModal'.isOpen
            /\ suggestionModal'.pendingFile = NoFile]_vars

\* the user accepted continue_anyway in a fresh page and the upload of the
\* pending file is in flight
C17_Witness ==
    /\ suggestionModal.isOpen
    /\ suggestionModal.suggestion.action = "continue_anyway"
    /\ isProcessing
    /\ \E t \in tasks : /\ t.kind = "uploadPDF"
                        /\ t.via = "handleModalAction"
                        /\ t.file = suggestionModal.pendingFile

\* the number of attached documents the analyzer classified as a type
attachedOfType(pdfs, ft) == Cardinality({ i \in 1..Len(pdfs) : pdfs[i].fileType = ft })

\* C18: the current_files map of an analysis request does not count the
\* file under consideration, and its entry for each type is the number of
\* attached documents that the analyzer classifies as that type.
C18_CurrentFilesCountAttached ==
    [][\A t \in tasks' \ tasks :
          t.kind = "analyzeFileUpload" =>
              \A ft \in KnownFileTypes :
                  t.current_files[ft] = attachedOfType(uploadedPDFs, ft)]_vars

\* C19: after the user accepts a switch_model suggestion recommending a
\* model, the selected model is that model and the pending file is uploaded
\* with it as selected_model.
C19_SwitchedModelUsedForUpload ==
    /\ [][ModalAcceptSwitchModel /\ suggestionModal.suggestion.recommendedModel # NoModel
            => selectedModel' = suggestionModal.suggestion.recommendedModel]_vars
    /\ [](\A t \in tasks :
            (t.kind = "uploadPDF" /\ t.via = "setTimeout") => t.model = t.modelId)

(***************************************************************************)
(* Properties of the remedies, the document list and the model change      *)
(***************************************************************************)
\* every call to the backend before the upload of t succeeded: the server
\* holds the documents the page lists beside the new one
backendAgrees(t) ==
    idsOf(storedFor(t.convId)) = idsOf(uploadedPDFs) \ {t.optId}

\* C21: when the upload that follows an accepted remove_files suggestion
\* succeeds (the deletions and the session before it having succeeded), the
\* number of attached documents, the new one included, is at most the cap
\* of the selected model: the cap of the page, or for each type that of
\* the router.
withinCap(pdfs, modelId) ==
    \/ Len(pdfs) <= getMaxPDFsForModel(modelId)
    \/ \A ft \in KnownFileTypes :
          attachedOfType(pdfs, ft) <= getMaxFilesForModelAndType(modelId, ft)

C21_RemoveFilesRestoresCap ==
    [][\A t \in tasks :
          (UploadReturn(t) /\ t.action = "remove_files" /\ backendAgrees(t)) =>
              withinCap(uploadedPDFs', selectedModel')]_vars

\* the user presses the action button of a modal that holds a pending file
\* and a remedy (a switch of model naming the model to switch to)
acceptsRemedy ==
    /\ suggestionModal.pendingFile # NoFile
    /\ suggestionModal.suggestion.action \in
          { "proceed", "switch_model", "remove_files", "reduce_files", "continue_anyway" }
    /\ suggestionModal.suggestion.action = "switch_model"
          => suggestionModal.suggestion.recommendedModel # NoModel
    /\ \/ ModalAcceptUpload \/ ModalAcceptSwitchModel
       \/ ModalAcceptRemoveFiles \/ ModalAcceptOther

\* C22: accepting the action button of a modal with a pending file, for any
\* remedy the server may send, leads to the upload of the pending file: the
\* step starts a call for that file (the deletions, the timer, the session or
\* the upload itself), without which the file, no longer pending once the
\* modal closes, can never be uploaded.
C22_AcceptedRemedyUploadsPendingFile ==
    [][acceptsRemedy =>
          \E t \in tasks' : /\ t.kind \in uploadKinds
                            /\ t.file = suggestionModal.pendingFile
                            /\ t.call = selections]_vars

(***************************************************************************)
(* Properties of the caps and of the models named as remedies              *)
(***************************************************************************)
\* C23: isPDFAnalysisModel is true for every model id of the DeepSeek
\* family, and the page's cap getMaxPDFsForModel equals the router's cap
\* getMaxFilesForModelAndType for pdf, for every model id: 3 for DeepSeek
\* models and 1 for all others.
C23_PageCapEqualsRouterCap ==
    op = "getMaxPDFsForModel" =>
        /\ getModelFamily(input.modelId) = "deepseek" => pdfSupport.isPDFModel
        /\ pdfSupport.maxPDFs = getMaxFilesForModelAndType(input.modelId, "pdf")
        /\ pdfSupport.maxPDFs = IF getModelFamily(input.modelId) = "deepseek"
                                THEN 3 ELSE 1

\* nothing is in progress: no call in flight, no flag set, no effect to run
quiescent ==
    /\ tasks = {}
    /\ ~isAnalyzingFile
    /\ ~isUploadingPDF
    /\ ~effectPending

\* C24: in every quiescent state of the chat page the number of attached
\* documents is at most getMaxPDFsForModel(selectedModel).
C24_AttachedWithinCapWhenQuiescent ==
    quiescent => Len(uploadedPDFs) <= getMaxPDFsForModel(selectedModel)

\* the model-change cleanup of t completes, the backend having carried out
\* every deletion asked of it
cleanupCompletes(t) ==
    /\ t.kind = "cleanup"
    /\ CleanupReturn(t, idsOf(slice1(t.pdfs)))

\* the warning of a completed cleanup is shown, no cleanup is left to run,
\* and the backend holds exactly the documents the page lists
cleanupSettled ==
    /\ suggestionModal = modelChangedModal
    /\ ~effectPending
    /\ ~\E t \in tasks : t.kind = "cleanup"
    /\ idsOf(storedFor(conversationId)) = idsOf(uploadedPDFs)

\* C25: when the cleanup after a change to a model without PDF analysis
\* completes, the list holds exactly the document that was first, the
\* documents it removed from the list are deleted from the backend, and the
\* modal shows a warning without action and without pending file; once it
\* is settled the backend holds no document of the conversation that the
\* page does not list; a model change with at most one document attached,
\* or to a PDF analysis model, leaves the list unchanged.
C25_ModelChangeKeepsFirstOnly ==
    [][/\ \A t \in tasks :
            cleanupCompletes(t) =>
                /\ uploadedPDFs' = <<t.pdfs[1]>>
                /\ idsOf(server'.pdfs) \cap idsOf(slice1(t.pdfs)) = {}
                /\ suggestionModal'.isOpen
                /\ suggestionModal'.suggestion.type = "warning"
                /\ suggestionModal'.suggestion.action = Null
                /\ suggestionModal'.pendingFile = NoFile
       /\ cleanupSettled =>
             idsOf(storedFor(conversationId))' \subseteq idsOf(uploadedPDFs')
       /\ (HandleModelChange
             /\ (isPDFAnalysisModel(selectedModel) \/ Len(uploadedPDFs) <= 1)) =>
                /\ uploadedPDFs' = uploadedPDFs
                /\ tasks' = tasks]_vars

\* the entries of the list other than the optimistic entry of t, in order
othersThan(pdfs, t) ==
    filterSeq(pdfs, { pdfs[i].id : i \in { j \in 1..Len(pdfs) :
                                            ~(pdfs[j].id = t.optId /\ pdfs[j].temp) } })

\* the documents the step stored on the server
storedByStep == idsOf(server'.pdfs) \ idsOf(server.pdfs)

\* C26: when uploadPDF fails the optimistic entry is removed and no other
\* entry is touched, the uploading flag is false again and the modal shows
\* an error without action and without pending file; when it succeeds the
\* optimistic entry stays, carrying the id the server gave the document, and
\* no other entry is touched.
C26_OptimisticUploadRolledBack ==
    [][\A t \in tasks :
          /\ UploadFail(t) =>
                /\ uploadedPDFs' = othersThan(uploadedPDFs, t)
                /\ ~isUploadingPDF'
                /\ isErrorWithoutAction(suggestionModal')
          /\ (UploadReturn(t) /\ t.optId \in idsOf(uploadedPDFs)) =>
                /\ Len(uploadedPDFs') = Len(uploadedPDFs)
                /\ withoutIds(uploadedPDFs', storedByStep) = othersThan(uploadedPDFs, t)
                /\ idsOf(uploadedPDFs') \ idsOf(uploadedPDFs) = storedByStep
                /\ Cardinality(storedByStep) = 1
                /\ ~isUploadingPDF']_vars

(***************************************************************************)
(* Properties of the sidebar                                               *)
(***************************************************************************)
\* C27: deleting a conversation is optimistic with restore. The session
\* leaves the sidebar in the step of handleDeleteSession, and when the
\* backend's deleteConversation fails the history is refreshed (a call of
\* fetchChatHistory is started), so that the session reappears.
C27_DeleteIsOptimisticWithRestore ==
    [][ /\ \A sessionId \in sessions :
             HandleDeleteSession(sessionId) => sessionId \notin sessions'
        /\ \A t \in historyTasks :
             DeleteFail(t) =>
                \E u \in historyTasks' : u.kind = "fetchChatHistory" ]_vars

(***************************************************************************)
(* Properties of the gate of college emails                                *)
(***************************************************************************)
\* the email has a domain that is one of APPROVED_DOMAINS
hasApprovedDomain(email) ==
    \E i \in 1..Len(APPROVED_DOMAINS) :
        getDomain(email) = toLowerCase(APPROVED_DOMAINS[i].domain)

\* a session whose user has an email that is not approved
unapproved(session) ==
    /\ session.present
    /\ session.user.email # NoEmail
    /\ ~hasApprovedDomain(session.user.email)

\* C28: the gate of college emails. After any sequence of session
\* initialisation and auth-state-change events the user is non-null
\* (isAuthenticated) only if the user has an email whose domain is one of
\* APPROVED_DOMAINS; and a session whose email is not approved leaves the
\* user null and opens the restriction modal with that email.
C28_OnlyCollegeEmailsAuthenticated ==
    [][ /\ user'.present => hasApprovedDomain(user'.email)
        /\ \A session \in AuthSessions :
             ( /\ unapproved(session)
               /\ \/ OnAuthStateChange(session)
                  \/ \E t \in authTasks : InitAuthReturn(t) /\ authSession = session )
             => /\ user' = NoUser
                /\ showRestrictionModal'
                /\ restrictedEmail' = session.user.email ]_vars

(***************************************************************************)
(* One file at a time                                                      *)
(***************************************************************************)
\* a file is in the flow: its analysis, the creation of its conversation,
\* the timer after switch_model, the deletions of remove_files or its
\* upload is in flight
fileInFlow ==
    \E t \in tasks : t.kind \in uploadKinds \cup { "analyzeFileUpload" }

\* the upload control of ChatInput can be used: it is not disabled and the
\* suggestion modal does not cover it
uploadControlOpen ==
    /\ ~isAnalyzingFile
    /\ ~isUploadingPDF
    /\ ~suggestionModal.isOpen

\* C29: at most one file at a time. From the selection of a file until
\* its analysis and its upload have finished (the creation of a
\* conversation and the delayed upload after switch_model included) the
\* upload control is disabled (isAnalyzingFile or isUploadingPDF) or
\* covered by the suggestion modal, so that no second file can enter.
C29_OneFileAtATime ==
    fileInFlow => ~uploadControlOpen

(***************************************************************************)
(* The models named as remedies                                            *)
(***************************************************************************)
\* the ids of the models of the registry
registryIds == { AVAILABLE_MODELS[i] : i \in 1..Len(AVAILABLE_MODELS) }

\* the recommended model of the decision takes one file of the decision's type
recommendedTakesOne ==
    checkModelCompatibility(decision.recommendedModel, decision.fileType,
                            input.fileCategory, 1).isCompatible

\* C30: every model id that the client router names as a remedy (the
\* recommendedModel and each entry of the compatibleModels of
\* getCompatibleModels, and the recommendedModel of the page's
\* model-change warning) is the id of a model of AVAILABLE_MODELS, and for
\* each of pdf, image, docx and pptx the recommended model is compatible
\* with that type under checkModelCompatibility for one file.
C30_RemediesAreCatalogModels ==
    Checked =>
       /\ decision.hasRecommended => decision.recommendedModel \in registryIds
       /\ \A i \in 1..Len(decision.compatibleModels.list) :
             decision.compatibleModels.list[i] \in registryIds
       /\ modelChangedModal.suggestion.recommendedModel \in registryIds
       /\ decision.fileType \in KnownFileTypes => recommendedTakesOne

====
